---------------------------- MODULE Spec2Model ----------------------------
(***************************************************************************)
(* Model of the Python adapters that drive the ONA reasoning engine over   *)
(* stdin/stdout pipes (misc/python/NAR_working.py, NAR_native_threaded.py, *)
(* NAR.py).                                                                *)
(*                                                                         *)
(* Text is a sequence of one-character strings, so that rstrip, strip,     *)
(* lower, equality with a marker and substring tests are computed.         *)
(*                                                                         *)
(* Time is counted in ticks of 25 ms (half of the 50 ms queue poll), with  *)
(* two clocks local to the calling thread: `elapsed` since the batch read  *)
(* took its deadline and `waited` since the current blocking call began.   *)
(* Statements that do not block take no time; a blocking queue.get returns *)
(* as soon as an item is there and raises Empty when its timeout is over.  *)
(***************************************************************************)
EXTENDS Integers, Sequences, FiniteSets, TLC

VARIABLES
    variant,    \* which adapter module runs: "working", "threaded", "narpy"
    pc,         \* position of the calling thread
    mode,       \* "startup" (welcome drain), "batch" (a command's read), "none"
    timeout,    \* deadline of the current batch read, in ticks after its start
    elapsed,    \* ticks since the current batch read took its deadline
    waited,     \* ticks since the current blocking call (sleep, get) began
    stdin,      \* command lines written to the engine's input, in order
    engCmd,     \* index in stdin of the command the engine answers (0: banner)
    alive,      \* the engine process runs
    pipe,       \* raw lines the engine wrote to stdout, not yet read
    reader,     \* reader thread: "running" or "exited"
    queue,      \* output_queue
    heap,       \* the list objects created by `lines = []`, by identity
    lines,      \* the local variable `lines`: a reference into heap (0: unbound)
    batches,    \* what each batch read returned: [cmd, ref], in call order
    emitted,    \* history: every raw line the engine wrote, in order
    exc,        \* exception raised into the caller by the last operation
    flag,       \* requestOutputArgs of the NAR.py read in progress
    result,     \* value returned by the last NAR.py operation
    flood,      \* "off", or the engine writes a line every tick without end:
                \* "due" (a line is due now), "wait" (the next one after a tick)
    env,        \* what bounds this run: [vocab: the raw lines the engine can
                \* write, lines: how many it writes, cmds: how many commands
                \* the caller issues, calls: the operations it calls]
    timely,     \* history: the queue was empty when the current command was
                \* written, and that command's lines so far arrived before the
                \* deadline and less than one poll interval apart
    lastArr,    \* history: ticks since the last such line was enqueued, counted
                \* up to Poll (-1: none was)
    life        \* the client in its program:
                \*   exists  NATIVE_BINARY.exists()
                \*   popen   engine processes spawned (subprocess.Popen)
                \*   threads reader threads started
                \*   msg     message of the exception the constructor raised
                \*   held    "local" (nar = NAR()) or "global" (get_nar():
                \*           _nar_instance)
                \*   call    the public operation called last
                \*   calls   calls of terminate() that returned
                \*   sig     SIGTERM sent to the engine: "none", "pending",
                \*           "handled"
                \*   how     how the program ended: "none" while it runs
                \*   ret     where the running terminate() returns to

vars == <<variant, pc, mode, timeout, elapsed, waited, stdin, engCmd, alive,
          pipe, reader, queue, heap, lines, batches, emitted, exc, flag,
          result, flood, env, timely, lastArr, life>>

-----------------------------------------------------------------------------
(* Bounds of the model *)

\* commands the caller issues
MaxCmds == 2
\* raw lines the engine writes in all (banner and responses)
MaxLines == 2
\* the same two bounds where termination is checked (SpecLive)
LiveCmds == 1
LiveLines == 2
\* the same two bounds where the stats queries of NAR.py are followed
\* (SpecNarStats)
NarStatsCmds == 2
NarStatsLines == 2
\* the same two bounds where the stats mapping is built (SpecStats)
StatsCmds == 1
StatsLines == 2
\* the same two bounds where the dict of GetOutput is built (SpecNarOut)
NarOutCmds == 1
NarOutLines == 3
\* the same two bounds where NAR.py is asked to run cycles (SpecNarCycles)
NarCyclesCmds == 2
NarCyclesLines == 3
\* the same two bounds where the life of the client is followed (SpecLife)
LifeCmds == 1
LifeLines == 1
\* the same two bounds where the public operations are followed (SpecOps)
OpsCmds == 2
OpsLines == 1
\* the argument of cycles(n)
CyclesN == 10
\* calls of terminate(), the exit-time cleanup included
MaxTerminates == 2

-----------------------------------------------------------------------------
(* Program constants, in ticks of 25 ms *)

\* queue.get(timeout=0.05)
Poll == 2
\* send(command, wait=0.3)
SendWait == 12
\* time.sleep(0.05) in NAR.__init__
InitSleep == 2
\* self._drain_queue(timeout=0.1) in NAR.__init__
InitWait == 4
\* GetRawOutput(nar=None, timeout_sec=2.0) in NAR_native_threaded
ThreadedWait == 80
\* timeout = time.time() + 0.5 in NAR_native_threaded.spawnNAR
ThreadedInitWait == 20
\* self.proc.wait(timeout=1) in NAR.terminate
TermWait == 40

-----------------------------------------------------------------------------
(* Text *)

Whitespace == {" ", "\n", "\t", "\r"}

DoneMarker == <<"/","/","*","d","o","n","e">>
DoneWith == <<"d","o","n","e"," ","w","i","t","h">>
InferenceSteps == <<"a","d","d","i","t","i","o","n","a","l"," ","i","n","f","e","r","e","n","c","e"," ","s","t","e","p","s">>
ArgsExpected == <<"o","p","e","r","a","t","i","o","n"," ","r","e","s","u","l","t"," ","p","r","o","d","u","c","t"," ","e","x","p","e","c","t","e","d">>

\* lines the engine can write, each ending in a newline
RawPlain == <<"^","l","e","f","t","\n">>
RawBlank == <<"\n">>
RawDone == <<"/","/","*","d","o","n","e","\n">>
RawCycleDone == <<"d","o","n","e"," ","w","i","t","h"," ","0"," ","a","d","d","i","t","i","o","n","a","l"," ","i","n","f","e","r","e","n","c","e"," ","s","t","e","p","s",".","\n">>
RawStat == <<"c","u","r","r","e","n","t","T","i","m","e",":"," ","4","2","\n">>
RawStatSpaced == <<"a","v","e","r","a","g","e"," ","p","r","i","o","r","i","t","y",":"," ","0",".","5","7","\n">>
RawNote == <<"n","o","t","e",":"," ","s","o","m","e","t","h","i","n","g"," ","o","d","d","\n">>
RawExecuted == <<"^","e","x","e","c","u","t","e","d",":"," ","^","l","e","f","t"," ","d","e","s","i","r","e","=","0",".","7","0","\n">>
RawExecutedArgs == <<"^","e","x","e","c","u","t","e","d",":"," ","^","g","o"," ","a","r","g","s"," ","x"," ","y"," ","d","e","s","i","r","e","=","0",".","5","\n">>
RawInput == <<"I","n","p","u","t",":"," ","a",".","\n">>
RawDerived == <<"D","e","r","i","v","e","d",":"," ","b","."," ",":","|",":","\n">>
RawAnswer == <<"A","n","s","w","e","r",":"," ","c",".","\n">>
RawSelected == <<"S","e","l","e","c","t","e","d",":"," ","d","!","\n">>
RawOther == <<"h","e","l","l","o","\n">>
RawArgs == <<"/","/","O","p","e","r","a","t","i","o","n"," ","r","e","s","u","l","t"," ","p","r","o","d","u","c","t"," ","e","x","p","e","c","t","e","d",":"," ","\n">>

CmdStmt == <<"a",".">>
CmdZero == <<"0">>
CmdVolume == <<"*","v","o","l","u","m","e","=","1","0","0">>
CmdReset == <<"*","r","e","s","e","t">>
CmdStats == <<"*","s","t","a","t","s">>
CmdQuit == <<"q","u","i","t">>

\* str(n), for an int n
Digit(d) == <<"0","1","2","3","4","5","6","7","8","9">>[d + 1]

RECURSIVE StrNat(_)
StrNat(n) == IF n < 10 THEN <<Digit(n)>> ELSE Append(StrNat(n \div 10), Digit(n % 10))

Str(n) == IF n < 0 THEN <<"-">> \o StrNat(0 - n) ELSE StrNat(n)

RECURSIVE RStrip(_)
RStrip(s) ==
    IF s # <<>> /\ s[Len(s)] \in Whitespace
    THEN RStrip(SubSeq(s, 1, Len(s) - 1))
    ELSE s

RECURSIVE LStrip(_)
LStrip(s) ==
    IF s # <<>> /\ s[1] \in Whitespace THEN LStrip(Tail(s)) ELSE s

Strip(s) == LStrip(RStrip(s))

LowerChar(c) ==
    CASE c = "O" -> "o"
      [] c = "D" -> "d"
      [] c = "A" -> "a"
      [] OTHER -> c

Lower(s) == [i \in 1..Len(s) |-> LowerChar(s[i])]

\* Python's `sub in s`
Contains(s, sub) ==
    \E i \in 1..(Len(s) - Len(sub) + 1) : SubSeq(s, i, i + Len(sub) - 1) = sub


\* s.startswith(pre)
StartsWith(s, pre) == Len(s) >= Len(pre) /\ SubSeq(s, 1, Len(pre)) = pre

\* s[k:]
From(s, k) == SubSeq(s, k + 1, Len(s))

\* s.replace(a, b), for single characters
Replace(s, a, b) == [i \in 1..Len(s) |-> IF s[i] = a THEN b ELSE s[i]]

\* s.split(sep): the pieces between the occurrences of the character sep
RECURSIVE Split(_, _)
Split(s, sep) ==
    IF \A i \in 1..Len(s) : s[i] # sep THEN <<s>>
    ELSE LET k == CHOOSE i \in 1..Len(s) :
                      s[i] = sep /\ \A j \in 1..(i - 1) : s[j] # sep IN
         <<SubSeq(s, 1, k - 1)>> \o Split(From(s, k), sep)

\* s.split(sep, 1): at most two pieces
SplitOnce(s, sep) ==
    LET all == Split(s, sep) IN
    IF Len(all) = 1 THEN all
    ELSE <<all[1], From(s, Len(all[1]) + 1)>>

Digits == {"0","1","2","3","4","5","6","7","8","9"}
DigitValue(c) == CHOOSE d \in 0..9 : Digit(d) = c

RECURSIVE NatOf(_)
NatOf(s) == IF s = <<>> THEN 0 ELSE 10 * NatOf(SubSeq(s, 1, Len(s) - 1)) + DigitValue(s[Len(s)])

AllDigits(s) == \A i \in 1..Len(s) : s[i] \in Digits
Signed(s) == s # <<>> /\ s[1] \in {"+", "-"}
Unsigned(s) == IF Signed(s) THEN Tail(s) ELSE s
SignOf(s) == IF s # <<>> /\ s[1] = "-" THEN -1 ELSE 1

\* int(s) succeeds: an optional sign and decimal digits
IsInt(s) == Unsigned(s) # <<>> /\ AllDigits(Unsigned(s))

\* float(s) succeeds: an optional sign, digits with at most one point
\* (exponents, inf and nan are not among the texts of this model)
IsFloat(s) ==
    LET parts == Split(Unsigned(s), ".") IN
    /\ Len(parts) <= 2
    /\ \A i \in 1..Len(parts) : AllDigits(parts[i])
    /\ \E i \in 1..Len(parts) : parts[i] # <<>>

\* a number m * 10^-e with no trailing zero in its fraction
RECURSIVE Normal(_, _)
Normal(m, e) == IF e > 0 /\ m % 10 = 0 THEN Normal(m \div 10, e - 1) ELSE <<m, e>>

\* the values of a stats entry
IntValue(s) == [type |-> "int", num |-> <<SignOf(s) * NatOf(Unsigned(s)), 0>>, text |-> <<>>]
FloatValue(s) ==
    LET parts == Split(Unsigned(s), ".")
        frac == IF Len(parts) = 2 THEN parts[2] ELSE <<>>
        norm == Normal(NatOf(parts[1] \o frac), Len(frac)) IN
    [type |-> "float", num |-> <<SignOf(s) * norm[1], norm[2]>>, text |-> <<>>]
StrValue(s) == [type |-> "str", num |-> <<0, 0>>, text |-> s]

\* stats[key] = value, for a dict kept as its entries in insertion order
DictSet(d, k, v) ==
    IF \E i \in 1..Len(d) : d[i].key = k
    THEN [i \in 1..Len(d) |-> IF d[i].key = k THEN [key |-> k, value |-> v] ELSE d[i]]
    ELSE Append(d, [key |-> k, value |-> v])

RECURSIVE Concat(_)
Concat(ss) == IF ss = <<>> THEN <<>> ELSE Head(ss) \o Concat(Tail(ss))

Last(s) == s[Len(s)]

-----------------------------------------------------------------------------
(* The engine: a black box that writes lines to its stdout.  It writes the  *)
(* banner (command 0) and then answers the commands on its stdin in order;  *)
(* a line answers a command that has been written.                          *)

Menu == {RawPlain, RawBlank, RawDone, RawCycleDone}
PlainMenu == {RawPlain, RawBlank, RawDone}
StatsMenu == {RawStat, RawDone}
StatLinesMenu == {RawStat, RawStatSpaced, RawNote, RawDone}
NarPyMenu == {RawPlain, RawBlank, RawCycleDone, RawArgs}

EngineEmit ==
    /\ alive
    /\ flood = "off"
    /\ Len(emitted) < env.lines
    /\ \E k \in engCmd..Len(stdin), raw \in env.vocab :
         LET line == [cmd |-> k, n |-> Len(emitted) + 1, text |-> raw] IN
         /\ engCmd' = k
         /\ pipe' = Append(pipe, line)
         /\ emitted' = Append(emitted, line)
    /\ UNCHANGED <<life, variant, pc, mode, timeout, elapsed, waited, stdin, alive,
                   reader, queue, heap, lines, batches, exc, flag, result,
                   flood, env, timely, lastArr>>

EngineDie ==
    /\ alive
    /\ alive' = FALSE
    /\ flood' = "off"
    /\ UNCHANGED <<life, variant, pc, mode, timeout, elapsed, waited, stdin, engCmd,
                   pipe, reader, queue, heap, lines, batches, emitted, exc,
                   flag, result, env, timely, lastArr>>

\* the engine writes lines without pause: one every tick, for ever, in
\* place of the bounded output of EngineEmit
FloodStart ==
    /\ alive
    /\ flood = "off"
    /\ emitted = <<>>
    /\ flood' = "due"
    /\ UNCHANGED <<life, variant, pc, mode, timeout, elapsed, waited, stdin, engCmd,
                   alive, pipe, reader, queue, heap, lines, batches, emitted,
                   exc, flag, result, env, timely, lastArr>>

-----------------------------------------------------------------------------
(* The reader thread: NAR._read_output, reader_thread *)

InDrain == pc \in {"check", "get"}

\* output_queue.put(item)
QueuePutFront(q, item) == <<item>> \o q
QueuePut(q, item) == Append(q, item)

\* for line in iter(readline, ''): if line: output_queue.put(line.rstrip())
ReaderPut(q, raw) ==
    IF Len(raw.text) > 0
    THEN QueuePut(q, [cmd |-> raw.cmd, n |-> raw.n, text |-> RStrip(raw.text),
                      wr |-> Len(stdin)])
    ELSE q

\* history of the arrival times of the current command's lines
ArrivalTimely(raw) ==
    IF raw.cmd # Len(stdin) \/ raw.cmd = 0 THEN timely
    ELSE /\ timely
         /\ InDrain /\ mode = "batch"
         /\ elapsed < timeout
         /\ lastArr < Poll

ReaderRead ==
    /\ reader = "running"
    /\ pipe # <<>>
    /\ queue' = ReaderPut(queue, Head(pipe))
    /\ pipe' = Tail(pipe)
    /\ timely' = ArrivalTimely(Head(pipe))
    /\ lastArr' = IF ~timely' THEN -1
                  ELSE IF Head(pipe).cmd = Len(stdin) /\ Head(pipe).cmd # 0 THEN 0
                  ELSE lastArr
    /\ UNCHANGED <<life, variant, pc, mode, timeout, elapsed, waited, stdin, engCmd,
                   alive, reader, heap, lines, batches, emitted, exc, flag,
                   result, flood, env>>

\* a line of the flood reaches the queue (written and read in one step; it
\* is not kept in `emitted`).  While the caller is idle no time is counted:
\* the queue then holds one pending line of the flood.  Once the reader
\* thread has stopped the line is written and stays unread.
FloodPut ==
    /\ \/ flood = "due" /\ pc # "idle"
       \/ flood # "off" /\ pc = "idle" /\ queue = <<>> /\ reader = "running"
    /\ queue' = IF reader = "running"
                THEN ReaderPut(queue, [cmd |-> engCmd, n |-> 0, text |-> RawPlain])
                ELSE queue
    /\ flood' = "wait"
    /\ UNCHANGED <<life, variant, pc, mode, timeout, elapsed, waited, stdin, engCmd,
                   alive, pipe, reader, heap, lines, batches, emitted, exc, flag,
                   result, env, timely, lastArr>>

\* what the thread does to the queue when its loop ends, at end of stream or
\* in `except: pass`
PutsErrorItem(q) ==
    Append(q, [cmd |-> 0, n |-> 0, text |-> <<"E","O","F">>, wr |-> 0])
OnReadEnd(q) == q

\* readline returns '' at end of stream: the loop ends
ReaderEOF ==
    /\ reader = "running"
    /\ pipe = <<>>
    /\ ~alive
    /\ reader' = "exited"
    /\ queue' = OnReadEnd(queue)
    /\ UNCHANGED <<life, variant, pc, mode, timeout, elapsed, waited, stdin, engCmd,
                   alive, pipe, heap, lines, batches, emitted, exc, flag,
                   result, flood, env, timely, lastArr>>

\* readline raises (the stream cannot be read or decoded): except: pass
ReaderFail ==
    /\ reader = "running"
    /\ reader' = "exited"
    /\ queue' = OnReadEnd(queue)
    /\ UNCHANGED <<life, variant, pc, mode, timeout, elapsed, waited, stdin, engCmd,
                   alive, pipe, heap, lines, batches, emitted, exc, flag,
                   result, flood, env, timely, lastArr>>

-----------------------------------------------------------------------------
(* The calling thread: NAR.__init__, NAR._drain_queue, NAR.send            *)
(* (NAR_working) and spawnNAR, GetRawOutput, AddInput (NAR_native_threaded) *)

\* a call of a public operation: add_input(arg), reset(), cycles(n), stats();
\* "init" stands for the constructor, "terminate" for terminate()
Call(o, a, k) == [op |-> o, arg |-> a, n |-> k]
InitCall == Call("init", <<>>, 0)
AddInputStmt == Call("add_input", CmdStmt, 0)

\* the line each operation hands to send()
CyclesAsStmt(call) ==
    CASE call.op = "reset" -> CmdReset
      [] call.op = "stats" -> CmdStats
      [] OTHER -> call.arg
CommandOf(call) ==
    CASE call.op = "reset" -> CmdReset
      [] call.op = "cycles" -> Str(call.n)
      [] call.op = "stats" -> CmdStats
      [] OTHER -> call.arg

\* self.proc.stdin.write(...); flush(): raises BrokenPipeError when the
\* engine has exited
WriteNeverFails(a) == FALSE
WriteFails(a) == ~a

\* lines = []  : a new list object each call
SharedList(h) == 1
NewList(h) == Len(h) + 1

\* the list a returned batch refers to
Batch(b) == IF b.ref = 0 THEN <<>> ELSE heap[b.ref]

\* the list the local variable `lines` refers to
Lines == IF lines = 0 THEN <<>> ELSE heap[lines]

\* while time.time() < deadline
NoDeadline(e, t) == TRUE
DeadlineOpen(e, t) == e < t

\* line = self.output_queue.get(timeout=0.05): the item taken, the queue left
QueueGet(q) == [item |-> Head(q), rest |-> Tail(q)]

NeverTerminator(text) == FALSE
\* if line == "//*done": break
IsTerminator(text) == text = DoneMarker

\* what the read loop does with a dequeued line: the list after it
\* NAR_working: lines.append(line)
\* NAR_native_threaded: the marker is not kept; if line: lines.append(line)
Collect(v, ls, item) ==
    IF v = "working" THEN Append(ls, item)
    ELSE IF IsTerminator(item.text) \/ item.text = <<>> THEN ls
    ELSE Append(ls, item)

\* except queue.Empty: if lines: break
EmptyAlwaysBreaks(ls) == "break"
EmptyRaises(ls) == "raise"
OnEmpty(ls) == IF ls # <<>> THEN "break" ELSE "continue"

\* deadline = time.time() + timeout, for each call of the batch reader
WaitOf(v, m) ==
    IF v = "working" THEN (IF m = "startup" THEN InitWait ELSE SendWait)
    ELSE (IF m = "startup" THEN ThreadedInitWait ELSE ThreadedWait)

\* the batch read begins: lines = [], deadline = time.time() + timeout
StartDrain(m) ==
    LET keepsList == ~(variant = "threaded" /\ m = "startup")
        ref == IF keepsList THEN NewList(heap) ELSE 0 IN
    /\ mode' = m
    /\ timeout' = WaitOf(variant, m)
    /\ elapsed' = 0
    /\ waited' = 0
    /\ lines' = ref
    /\ heap' = IF ref > Len(heap) THEN Append(heap, <<>>) ELSE heap
    /\ pc' = "check"

\* the text of each line of a list
TextsOf(ls) == [j \in 1..Len(ls) |-> ls[j].text]

Sigil == <<"^">>
DerivedPrefix == <<"D","e","r","i","v","e","d",":">>
AnswerPrefix == <<"A","n","s","w","e","r",":">>
CommentMarker == <<"/","/">>

\* [f(l) for l in output if l.startswith(pre)]
Picked(out, pre, cut, trim) ==
    LET sel == SelectSeq(out, LAMBDA l : StartsWith(l, pre)) IN
    [j \in 1..Len(sel) |-> IF trim THEN Strip(From(sel[j], cut)) ELSE From(sel[j], cut)]

\* the dict add_input / AddInput returns
\* NAR_working: l[9:] for "Derived:", l[8:] for "Answer:"
\* NAR_native_threaded: line[8:].strip(), line[7:].strip(), in an if/elif chain
\* whose prefixes exclude each other
AddInputDict(v, out) ==
    [output |-> out,
     executions |-> Picked(out, Sigil, 0, FALSE),
     derivations |-> IF v = "working" THEN Picked(out, DerivedPrefix, 9, FALSE)
                     ELSE Picked(out, DerivedPrefix, 8, TRUE),
     answers |-> IF v = "working" THEN Picked(out, AnswerPrefix, 8, FALSE)
                 ELSE Picked(out, AnswerPrefix, 7, TRUE)]

\* try: int(value) except ValueError: try: float(value) except ValueError: value
StatsValue(text) ==
    IF IsInt(text) THEN IntValue(text)
    ELSE IF IsFloat(text) THEN FloatValue(text)
    ELSE StrValue(text)

\* stats() of NAR_working, GetStats of NAR_native_threaded: the loop over
\* result["output"], from the dict d built so far
RECURSIVE StatsLoop(_, _)
StatsLoop(out, d) ==
    IF out = <<>> THEN d
    ELSE LET line == Head(out)
             parts == SplitOnce(line, ":") IN
         IF Contains(line, <<":">>) /\ ~StartsWith(line, CommentMarker) /\ Len(parts) = 2
         THEN StatsLoop(Tail(out), DictSet(d, Strip(parts[1]), StatsValue(Strip(parts[2]))))
         ELSE StatsLoop(Tail(out), d)

\* a stats mapping, as its entries [key, value] in insertion order
StatsSnapshot(entries) == [snapshot |-> entries]

\* what the public operation returns once send() has returned `out`:
\* stats() its mapping; add_input, reset and cycles the dict of add_input
Returned(v, call, out) ==
    IF call.op = "stats" THEN StatsSnapshot(StatsLoop(AddInputDict(v, out).output, <<>>))
    ELSE AddInputDict(v, out)

\* return lines
\* history kept with it: the command it was read for, what ended the read,
\* the number of the line that ended it (0: none did) and the public
\* operation that made the read
ReturnBatch(h, why, endN) ==
    /\ heap' = h
    /\ batches' = Append(batches, [cmd |-> Len(stdin), ref |-> lines,
                                   mode |-> mode, by |-> why, end |-> endN,
                                   call |-> life.call])
    /\ pc' = "idle"
    /\ mode' = "none"
    /\ timeout' = 0
    /\ elapsed' = 0
    /\ waited' = 0
    /\ lines' = 0
    /\ lastArr' = -1
    /\ result' = IF mode = "startup" THEN result
                 ELSE Returned(variant, life.call, TextsOf(IF lines = 0 THEN <<>> ELSE h[lines]))

\* time.sleep(0.05) of NAR.__init__ is over: self._drain_queue(timeout=0.1)
SleepDone ==
    /\ pc = "sleep"
    /\ waited = InitSleep
    /\ StartDrain("startup")
    /\ UNCHANGED <<life, variant, stdin, engCmd, alive, pipe, reader, queue, batches,
                   emitted, exc, flag, result, flood, env, timely,
                   lastArr>>

\* the loop condition
Check ==
    /\ pc = "check"
    /\ IF DeadlineOpen(elapsed, timeout)
       THEN /\ pc' = "get"
            /\ waited' = 0
            /\ UNCHANGED <<mode, timeout, elapsed, heap, lines, batches, lastArr,
                           result>>
       ELSE ReturnBatch(heap, "deadline", 0)
    /\ UNCHANGED <<life, variant, stdin, engCmd, alive, pipe, reader, queue, emitted,
                   exc, flag, flood, env, timely>>

\* queue.get returns a line
GetLine ==
    /\ pc = "get"
    /\ queue # <<>>
    /\ LET got == QueueGet(queue)
           h == IF lines = 0 THEN heap
                ELSE [heap EXCEPT ![lines] = Collect(variant, @, got.item)] IN
       /\ queue' = got.rest
       /\ IF mode = "startup" /\ variant = "threaded"
          THEN \* spawnNAR: the line is dropped and the loop goes on
               /\ pc' = "check"
               /\ UNCHANGED <<mode, timeout, elapsed, waited, heap, lines,
                              batches, lastArr, result>>
          ELSE IF IsTerminator(got.item.text)
          THEN ReturnBatch(h, "terminator", got.item.n)
          ELSE /\ heap' = h
               /\ pc' = "check"
               /\ UNCHANGED <<mode, timeout, elapsed, waited, lines, batches,
                              lastArr, result>>
    /\ UNCHANGED <<life, variant, stdin, engCmd, alive, pipe, reader, emitted, exc,
                   flag, flood, env, timely>>

\* queue.get raises Empty after its timeout
GetEmpty ==
    /\ pc = "get"
    /\ queue = <<>>
    /\ waited = Poll
    /\ LET what == IF mode = "startup" /\ variant = "threaded"
                   THEN "break"
                   ELSE OnEmpty(Lines) IN
       CASE what = "break" -> ReturnBatch(heap, "idle", 0) /\ UNCHANGED exc
         [] what = "continue" ->
               /\ pc' = "check"
               /\ UNCHANGED <<mode, timeout, elapsed, waited, heap, lines,
                              batches, lastArr, exc, result>>
         [] OTHER ->
               \* the exception leaves the batch reader and its caller
               /\ exc' = "Empty"
               /\ pc' = "idle"
               /\ mode' = "none"
               /\ lines' = 0
               /\ UNCHANGED <<timeout, elapsed, waited, heap, batches, lastArr,
                              result>>
    /\ UNCHANGED <<life, variant, stdin, engCmd, alive, pipe, reader, queue, emitted,
                   flag, flood, env, timely>>

\* send(command) / AddInput(narsese): write the command, flush, read the batch
Send ==
    /\ variant \in {"working", "threaded"}
    /\ pc = "idle"
    /\ Len(SelectSeq(stdin, LAMBDA c : c # CmdQuit)) < env.cmds
    /\ life.how = "none"
    /\ \E call \in env.calls :
         /\ life' = [life EXCEPT !.call = call]
         /\ IF ~WriteFails(alive)
            THEN /\ stdin' = Append(stdin, CommandOf(call))
                 /\ StartDrain("batch")
                 /\ timely' = (queue = <<>>)
                 /\ lastArr' = -1
                 /\ UNCHANGED exc
            ELSE \* the engine's end of the pipe is closed
                 /\ exc' = "BrokenPipeError"
                 /\ UNCHANGED <<stdin, pc, mode, timeout, elapsed, waited, heap,
                                lines, timely, lastArr>>
    /\ UNCHANGED <<variant, engCmd, alive, pipe, reader, queue, batches,
                   emitted, flag, result, flood, env>>

\* time passes while the calling thread is blocked
Tick ==
    /\ \/ pc = "sleep" /\ waited < InitSleep
       \/ pc = "get" /\ queue = <<>> /\ waited < Poll /\ elapsed < timeout + Poll
       \/ pc = "wait" /\ alive /\ waited < TermWait
    /\ flood # "due"
    /\ flood' = IF flood = "wait" THEN "due" ELSE flood
    /\ waited' = waited + 1
    /\ elapsed' = IF pc = "get" THEN elapsed + 1 ELSE elapsed
    /\ lastArr' = IF lastArr >= 0 /\ lastArr < Poll THEN lastArr + 1 ELSE lastArr
    /\ UNCHANGED <<life, variant, pc, mode, timeout, stdin, engCmd, alive, pipe,
                   reader, queue, heap, lines, batches, emitted, exc, flag,
                   result, env, timely>>

-----------------------------------------------------------------------------
(* The life of a NAR_working client: NAR.__init__, NAR.terminate, get_nar,  *)
(* cleanup, and the program that uses it                                    *)

\* NATIVE_BINARY = CLOJURE_ONA_DIR / "ona"
NativeBinary == "CLOJURE_ONA_DIR/ona"

\* f"Native binary not found: {NATIVE_BINARY}\n" "Run: ./scripts/build_native.sh"
Remediation == "Run: ./scripts/build_native.sh"
NotFoundMessage == <<"Native binary not found: ", NativeBinary, "\n", Remediation>>

\* what subprocess.Popen raises for a missing executable
PopenMessage == <<"[Errno 2] No such file or directory: ", NativeBinary>>

\* if not NATIVE_BINARY.exists()
SkipsCheck(e) == TRUE
Exists(e) == e

\* nar = NAR(), or get_nar() with _nar_instance None
Construct ==
    /\ pc = "new"
    /\ \E h \in {"local", "global"} :
         IF ~Exists(life.exists)
         THEN /\ exc' = "FileNotFoundError"
              /\ life' = [life EXCEPT !.msg = NotFoundMessage]
              /\ pc' = "failed"
              /\ UNCHANGED <<alive, reader, waited>>
         ELSE IF ~life.exists
         THEN \* Popen finds no executable
              /\ exc' = "FileNotFoundError"
              /\ life' = [life EXCEPT !.msg = PopenMessage]
              /\ pc' = "failed"
              /\ UNCHANGED <<alive, reader, waited>>
         ELSE /\ alive' = TRUE
              /\ reader' = "running"
              /\ life' = [life EXCEPT !.popen = @ + 1, !.threads = @ + 1,
                                      !.held = h]
              /\ pc' = "sleep"
              /\ waited' = 0
              /\ UNCHANGED exc
    /\ UNCHANGED <<variant, mode, timeout, elapsed, stdin, engCmd, pipe, queue,
                   heap, lines, batches, emitted, flag, result, flood, env,
                   timely, lastArr>>

TerminateCall == Call("terminate", <<>>, 0)

\* terminate(): try: write "quit", flush, proc.wait(timeout=1)
\*              except: proc.terminate()
\* A failed write goes to the except clause; Popen.terminate() sends nothing
\* to a process that has exited.
TerminateBody(ret) ==
    IF WriteFails(alive)
    THEN /\ pc' = ret
         /\ life' = [life EXCEPT !.calls = @ + 1, !.call = TerminateCall]
         /\ UNCHANGED <<stdin, waited>>
    ELSE /\ stdin' = Append(stdin, CmdQuit)
         /\ pc' = "wait"
         /\ waited' = 0
         /\ life' = [life EXCEPT !.ret = ret, !.call = TerminateCall]

\* nar.terminate() called by the program
Terminate ==
    /\ pc = "idle"
    /\ life.how = "none"
    /\ life.calls < MaxTerminates
    /\ TerminateBody("idle")
    /\ UNCHANGED <<variant, mode, timeout, elapsed, engCmd, alive, pipe, reader,
                   queue, heap, lines, batches, emitted, exc, flag, result,
                   flood, env, timely, lastArr>>

\* proc.wait returns: the engine has exited
WaitDone ==
    /\ pc = "wait"
    /\ ~alive
    /\ pc' = life.ret
    /\ life' = [life EXCEPT !.calls = @ + 1]
    /\ UNCHANGED <<variant, mode, timeout, elapsed, waited, stdin, engCmd, alive,
                   pipe, reader, queue, heap, lines, batches, emitted, exc, flag,
                   result, flood, env, timely, lastArr>>

\* proc.wait raises TimeoutExpired: except: self.proc.terminate() sends
\* SIGTERM and returns
WaitTimeout ==
    /\ pc = "wait"
    /\ alive
    /\ waited = TermWait
    /\ pc' = life.ret
    /\ life' = [life EXCEPT !.calls = @ + 1, !.sig = "pending"]
    /\ UNCHANGED <<variant, mode, timeout, elapsed, waited, stdin, engCmd, alive,
                   pipe, reader, queue, heap, lines, batches, emitted, exc, flag,
                   result, flood, env, timely, lastArr>>

\* the engine receives SIGTERM: it ends, or it handles the signal and runs on
EngineSignal ==
    /\ alive
    /\ life.sig = "pending"
    /\ \E ends \in BOOLEAN :
         IF ends
         THEN /\ alive' = FALSE
              /\ life' = [life EXCEPT !.sig = "none"]
         ELSE /\ life' = [life EXCEPT !.sig = "handled"]
              /\ UNCHANGED alive
    /\ UNCHANGED <<variant, pc, mode, timeout, elapsed, waited, stdin, engCmd,
                   pipe, reader, queue, heap, lines, batches, emitted, exc, flag,
                   result, flood, env, timely, lastArr>>

\* the program comes to its end: main returns, an exception leaves the
\* calling code, or the user interrupts it
ProgramEnds ==
    /\ pc \in {"idle", "failed"}
    /\ life.how = "none"
    /\ \E how \in {"return", "exception", "interrupt"} :
         /\ pc = "failed" => how = "exception"
         /\ life' = [life EXCEPT !.how = how]
    /\ pc' = "atexit"
    /\ UNCHANGED <<variant, mode, timeout, elapsed, waited, stdin, engCmd, alive,
                   pipe, reader, queue, heap, lines, batches, emitted, exc, flag,
                   result, flood, env, timely, lastArr>>

\* @atexit.register cleanup(): if _nar_instance: _nar_instance.terminate()
AtExit ==
    /\ pc = "atexit"
    /\ IF life.held = "global" /\ life.popen > 0
       THEN TerminateBody("ended")
       ELSE /\ pc' = "ended"
            /\ UNCHANGED <<stdin, waited, life>>
    /\ UNCHANGED <<variant, mode, timeout, elapsed, engCmd, alive, pipe, reader,
                   queue, heap, lines, batches, emitted, exc, flag, result,
                   flood, env, timely, lastArr>>

-----------------------------------------------------------------------------
(* NAR.py: the values it handles and its parse functions *)

\* s.split(sep), for a separator text of one or more characters
RECURSIVE SplitStr(_, _)
SplitStr(s, sep) ==
    IF ~Contains(s, sep) THEN <<s>>
    ELSE LET k == CHOOSE i \in 1..(Len(s) - Len(sep) + 1) :
                      /\ SubSeq(s, i, i + Len(sep) - 1) = sep
                      /\ \A j \in 1..(i - 1) : SubSeq(s, j, j + Len(sep) - 1) # sep IN
         <<SubSeq(s, 1, k - 1)>> \o SplitStr(SubSeq(s, k + Len(sep), Len(s)), sep)

\* s.split(): the pieces between runs of whitespace, none of them empty
RECURSIVE SplitWs(_)
SplitWs(s) ==
    LET t == LStrip(s) IN
    IF t = <<>> THEN <<>>
    ELSE LET k == IF \E i \in 1..Len(t) : t[i] \in Whitespace
                  THEN CHOOSE i \in 1..Len(t) :
                           /\ t[i] \in Whitespace
                           /\ \A j \in 1..(i - 1) : t[j] \notin Whitespace
                  ELSE Len(t) + 1 IN
         <<SubSeq(t, 1, k - 1)>> \o SplitWs(SubSeq(t, k, Len(t)))

\* sep.join(ls)
RECURSIVE Join(_, _)
Join(ls, sep) ==
    IF ls = <<>> THEN <<>>
    ELSE IF Len(ls) = 1 THEN ls[1]
    ELSE ls[1] \o sep \o Join(Tail(ls), sep)

\* Python values: None, str, int, float, list and dict, each with its type.
\* A number m * 10^-e is kept as <<m, e>>; a list as its items; a dict as its
\* items [key, value] in insertion order.
PyNone == [type |-> "None", num |-> <<0, 0>>, text |-> <<>>, items |-> <<>>]
PyStr(t) == [type |-> "str", num |-> <<0, 0>>, text |-> t, items |-> <<>>]
PyInt(t) == [type |-> "int", num |-> IntValue(t).num, text |-> <<>>, items |-> <<>>]
PyFloat(t) == [type |-> "float", num |-> FloatValue(t).num, text |-> <<>>, items |-> <<>>]
PyList(vs) == [type |-> "list", num |-> <<0, 0>>, text |-> <<>>, items |-> vs]
PyDict(kvs) == [type |-> "dict", num |-> <<0, 0>>, text |-> <<>>, items |-> kvs]

\* an exception raised in place of a value
PyRaise(name) == [type |-> "raise", name |-> name]
Raised(v) == "type" \in DOMAIN v /\ v.type = "raise"

\* key in d, d.get(key, default), d[key] = value
Has(d, k) == \E i \in 1..Len(d.items) : d.items[i].key = k
Get(d, k, default) ==
    IF Has(d, k)
    THEN d.items[CHOOSE i \in 1..Len(d.items) : d.items[i].key = k].value
    ELSE default
Set(d, k, v) == PyDict(DictSet(d.items, k, v))

\* str(x) and f"{x}" of a float: the digits with a point, ".0" for a whole
\* number (the numbers of this model have short decimal expansions)
RECURSIVE Zeros(_)
Zeros(n) == IF n <= 0 THEN <<>> ELSE <<"0">> \o Zeros(n - 1)

FloatText(num) ==
    LET m == IF num[1] < 0 THEN 0 - num[1] ELSE num[1]
        e == num[2]
        ds == StrNat(m)
        padded == Zeros(e + 1 - Len(ds)) \o ds
        whole == SubSeq(padded, 1, Len(padded) - e)
        frac == IF e = 0 THEN <<"0">>
                ELSE SubSeq(padded, Len(padded) - e + 1, Len(padded)) IN
    (IF num[1] < 0 THEN <<"-">> ELSE <<>>) \o whole \o <<".">> \o frac

\* str(x), for a str, an int or a float
PyStrOf(v) ==
    CASE v.type = "str" -> v.text
      [] v.type = "int" -> Str(v.num[1])
      [] v.type = "float" -> FloatText(v.num)
      [] OTHER -> <<"N","o","n","e">>

\* float(s): the number, or ValueError
ToFloat(s) == IF IsFloat(Strip(s)) THEN PyFloat(Strip(s)) ELSE PyRaise("ValueError")

\* the keys of the dicts, as text
KeyText(k) ==
    CASE k = "term" -> <<"t","e","r","m">>
      [] k = "type" -> <<"t","y","p","e">>
      [] k = "truth" -> <<"t","r","u","t","h">>
      [] k = "frequency" -> <<"f","r","e","q","u","e","n","c","y">>
      [] k = "confidence" -> <<"c","o","n","f","i","d","e","n","c","e">>
      [] k = "occurrence-time" -> <<"o","c","c","u","r","r","e","n","c","e","-","t","i","m","e">>
      [] k = "priority" -> <<"p","r","i","o","r","i","t","y">>
      [] k = "operation" -> <<"o","p","e","r","a","t","i","o","n">>
      [] k = "arguments" -> <<"a","r","g","u","m","e","n","t","s">>
      [] k = "desire" -> <<"d","e","s","i","r","e">>

\* json.dumps(v): the text of a value; json.loads reads the text of a value
\* back to that value and raises JSONDecodeError on any other text.  The
\* values are those of JsonValues, a set given where the functions are used.
RECURSIVE JsonDumps(_)
RECURSIVE JsonItems(_, _)
JsonItems(items, keyed) ==
    IF items = <<>> THEN <<>>
    ELSE (IF keyed
          THEN <<"\"">> \o KeyText(items[1].key) \o <<"\"", ":", " ">>
                  \o JsonDumps(items[1].value)
          ELSE JsonDumps(items[1]))
         \o (IF Len(items) > 1 THEN <<",", " ">> ELSE <<>>)
         \o JsonItems(Tail(items), keyed)
JsonDumps(v) ==
    CASE v.type = "str" -> <<"\"">> \o v.text \o <<"\"">>
      [] v.type = "int" -> Str(v.num[1])
      [] v.type = "float" -> FloatText(v.num)
      [] v.type = "list" -> <<"[">> \o JsonItems(v.items, FALSE) \o <<"]">>
      [] v.type = "dict" -> <<"{">> \o JsonItems(v.items, TRUE) \o <<"}">>
      [] OTHER -> <<"n","u","l","l">>

JsonLoadsIn(values, s) ==
    IF \E v \in values : JsonDumps(v) = s
    THEN CHOOSE v \in values : JsonDumps(v) = s
    ELSE PyRaise("JSONDecodeError")

\* parseTruth(truth_obj)
parseTruth(truth_obj) ==
    IF truth_obj.type = "dict"
    THEN PyDict(<<[key |-> "frequency",
                   value |-> Get(truth_obj, "frequency", PyFloat(<<"1",".","0">>))],
                  [key |-> "confidence",
                   value |-> Get(truth_obj, "confidence", PyFloat(<<"0",".","9">>))]>>)
    ELSE PyNone

\* parseTask(task_obj)
parseTask(task_obj) ==
    IF task_obj.type # "dict" THEN PyNone
    ELSE LET event_type == Get(task_obj, "type", PyStr(<<"b","e","l","i","e","f">>))
             r0 == PyDict(<<[key |-> "term",
                             value |-> Get(task_obj, "term", PyStr(<<>>))],
                            [key |-> "occurrenceTime",
                             value |-> PyStr(PyStrOf(Get(task_obj, "occurrence-time",
                                                         PyStr(<<"e","t","e","r","n","a","l">>))))]>>)
             r1 == Set(r0, "punctuation",
                       IF event_type = PyStr(<<"g","o","a","l">>) THEN PyStr(<<"!">>)
                       ELSE IF event_type = PyStr(<<"q","u","e","s","t","i","o","n">>) THEN PyStr(<<"?">>)
                       ELSE PyStr(<<".">>))
             r2 == IF Has(task_obj, "truth")
                   THEN Set(r1, "truth", parseTruth(Get(task_obj, "truth", PyNone)))
                   ELSE r1 IN
         IF Has(task_obj, "priority")
         THEN Set(r2, "Priority", PyStr(PyStrOf(Get(task_obj, "priority", PyNone))))
         ELSE r2

ExecutedMarker == <<"^","e","x","e","c","u","t","e","d",":">>
DesireMarker == <<"d","e","s","i","r","e","=">>
DecideMarker == <<"^","d","e","c","i","d","e",":">>

\* float(text.split("desire=")[1].split()[0]): the number, IndexError when
\* nothing follows the marker, ValueError when what follows is no number
DesireOf(text) ==
    LET after == SplitWs(SplitStr(text, DesireMarker)[2]) IN
    IF after = <<>> THEN PyRaise("IndexError") ELSE ToFloat(after[1])

\* parseExecution(exec_str), for a dict and for a str
parseExecution(exec_str) ==
    IF exec_str.type = "dict"
    THEN PyDict(<<[key |-> "operator",
                   value |-> Get(exec_str, "operation", PyStr(<<>>))],
                  [key |-> "arguments",
                   value |-> Get(exec_str, "arguments", PyList(<<>>))],
                  [key |-> "desire",
                   value |-> Get(exec_str, "desire", PyFloat(<<"0",".","0">>))]>>)
    ELSE IF Contains(exec_str.text, ExecutedMarker)
    THEN LET parts == SplitWs(Strip(SplitStr(exec_str.text, ExecutedMarker)[2]))
             operator == IF parts # <<>> THEN parts[1] ELSE <<>>
             desire == IF Contains(exec_str.text, DesireMarker)
                       THEN DesireOf(exec_str.text)
                       ELSE PyFloat(<<"0",".","0">>) IN
         IF Raised(desire) THEN desire
         ELSE PyDict(<<[key |-> "operator", value |-> PyStr(operator)],
                       [key |-> "arguments", value |-> PyList(<<>>)],
                       [key |-> "desire", value |-> desire]>>)
    ELSE PyDict(<<[key |-> "operator", value |-> PyStr(<<>>)],
                  [key |-> "arguments", value |-> PyList(<<>>)],
                  [key |-> "desire", value |-> PyFloat(<<"0",".","0">>)]>>)

\* {"term": task_str, "punctuation": "."}
PlainTask(task_str) ==
    PyDict(<<[key |-> "term", value |-> PyStr(task_str)],
             [key |-> "punctuation", value |-> PyStr(<<".">>)]>>)

\* parseReason(lines): the first line holding "^decide:" decides
RECURSIVE parseReason(_)
parseReason(ls) ==
    IF ls = <<>> THEN PyNone
    ELSE IF Contains(Head(ls), DecideMarker)
    THEN LET parts == Strip(SplitStr(Head(ls), DecideMarker)[2])
             desire == IF Contains(parts, DesireMarker) THEN DesireOf(parts)
                       ELSE PyFloat(<<"0",".","0">>)
             implication == Strip(SplitStr(parts, DesireMarker)[1]) IN
         IF Raised(desire) THEN desire
         ELSE PyDict(<<[key |-> "desire", value |-> desire],
                       [key |-> "hypothesis", value |-> PlainTask(implication)],
                       [key |-> "precondition", value |-> PyNone]>>)
    ELSE parseReason(Tail(ls))

\* PrintedTask(task): the text, or the exception of task["truth"]["frequency"]
\* when the truth is None
PrintedTask(task) ==
    LET occ == Get(task, "occurrenceTime", PyStr(<<"e","t","e","r","n","a","l">>)).text
        st0 == Get(task, "term", PyNone).text \o Get(task, "punctuation", PyNone).text
        st1 == IF occ # <<"e","t","e","r","n","a","l">>
               THEN IF occ = <<"n","o","w">> THEN st0 \o <<" ",":","|",":">>
                    ELSE IF occ # <<>> /\ AllDigits(occ)
                    THEN st0 \o <<" ",":","|",":"," ","o","c","c","u","r","r","e","n","c","e","T","i","m","e","=">> \o occ
                    ELSE st0
               ELSE st0
        st2 == IF Has(task, "Priority")
               THEN st1 \o <<" ","P","r","i","o","r","i","t","y","=">> \o PyStrOf(Get(task, "Priority", PyNone))
               ELSE st1
        truth == Get(task, "truth", PyNone) IN
    IF ~Has(task, "truth") THEN PyStr(st2)
    ELSE IF truth.type # "dict" THEN PyRaise("TypeError")
    ELSE PyStr(st2 \o <<" ","T","r","u","t","h",":"," ","f","r","e","q","u","e","n","c","y","=">>
                   \o PyStrOf(Get(truth, "frequency", PyNone))
                   \o <<" ","c","o","n","f","i","d","e","n","c","e","=">>
                   \o PyStrOf(Get(truth, "confidence", PyNone)))

-----------------------------------------------------------------------------
(* NAR.py: blocking reads of the engine's stdout, without a reader thread *)

\* if "done with" in line and "additional inference steps" in line
IsDoneMessage(line) == Contains(line, DoneWith) /\ Contains(line, InferenceSteps)

\* if "operation result product expected" in line.lower()
IsArgsRequest(line) == Contains(Lower(line), ArgsExpected)

\* the JSON values the engine of this model writes as lines: an execution
\* that also names a term, and a task
ObjExecution ==
    PyDict(<<[key |-> "operation", value |-> PyStr(<<"^","l","e","f","t">>)],
             [key |-> "term", value |-> PyStr(<<"a">>)]>>)
ObjTask ==
    PyDict(<<[key |-> "term", value |-> PyStr(<<"a">>)],
             [key |-> "type", value |-> PyStr(<<"g","o","a","l">>)]>>)
EngineObjects == {ObjExecution, ObjTask}
RawJsonExecution == JsonDumps(ObjExecution) \o <<"\n">>
RawJsonTask == JsonDumps(ObjTask) \o <<"\n">>

\* obj = json.loads(line)
JsonLoads(s) == JsonLoadsIn(EngineObjects, s)

\* what one line adds to the typed collections of GetOutput
NoParts ==
    [input |-> <<>>, derivations |-> <<>>, answers |-> <<>>,
     executions |-> <<>>, selections |-> <<>>]

Merge(a, b) ==
    [input |-> a.input \o b.input,
     derivations |-> a.derivations \o b.derivations,
     answers |-> a.answers \o b.answers,
     executions |-> a.executions \o b.executions,
     selections |-> a.selections \o b.selections]

\* if "operation" in obj: executions.append(parseExecution(obj))
\* elif "term" in obj: parsed = parseTask(obj); if parsed: derivations.append(parsed)
BothBranches(obj) ==
    Merge(IF Has(obj, "operation")
          THEN [NoParts EXCEPT !.executions = <<parseExecution(obj)>>]
          ELSE NoParts,
          IF Has(obj, "term")
          THEN [NoParts EXCEPT !.derivations = <<parseTask(obj)>>]
          ELSE NoParts)
JsonBranch(obj) ==
    IF Has(obj, "operation")
    THEN [NoParts EXCEPT !.executions = <<parseExecution(obj)>>]
    ELSE IF Has(obj, "term") /\ parseTask(obj) # PyNone
    THEN [NoParts EXCEPT !.derivations = <<parseTask(obj)>>]
    ELSE NoParts

\* if line.startswith('{') or line.startswith('['): try: obj = json.loads(line)
\* ... except json.JSONDecodeError: pass
JsonPart(line) ==
    IF StartsWith(line, <<"{">>) \/ StartsWith(line, <<"[">>)
    THEN LET obj == JsonLoads(line) IN
         IF obj.type = "dict" THEN JsonBranch(obj) ELSE NoParts
    ELSE NoParts

InputPrefix == <<"I","n","p","u","t",":">>
RevisedPrefix == <<"R","e","v","i","s","e","d",":">>
SelectedPrefix == <<"S","e","l","e","c","t","e","d",":">>

\* executions.append(parseExecution(line)), where parseExecution may raise
ExecutionPart(e) ==
    IF Raised(e) THEN e ELSE [NoParts EXCEPT !.executions = <<e>>]

\* the if/elif chain over the text shapes
TextPart(line) ==
    IF StartsWith(line, ExecutedMarker)
    THEN ExecutionPart(parseExecution(PyStr(line)))
    ELSE IF StartsWith(line, InputPrefix)
    THEN [NoParts EXCEPT
            !.input = <<PlainTask(Strip(SplitStr(line, InputPrefix)[2]))>>]
    ELSE IF StartsWith(line, DerivedPrefix) \/ StartsWith(line, RevisedPrefix)
    THEN [NoParts EXCEPT
            !.derivations = <<PlainTask(Strip(Split(line, ":")[2]))>>]
    ELSE IF StartsWith(line, AnswerPrefix)
    THEN [NoParts EXCEPT
            !.answers = <<PlainTask(Strip(SplitStr(line, AnswerPrefix)[2]))>>]
    ELSE IF StartsWith(line, SelectedPrefix)
    THEN [NoParts EXCEPT
            !.selections = <<PlainTask(Strip(SplitStr(line, SelectedPrefix)[2]))>>]
    ELSE NoParts

\* for line in lines: the collections after the loop, or the exception that
\* ended it
RECURSIVE OutputLoop(_, _)
OutputStep(t, ls, acc) ==
    IF Raised(t) THEN t
    ELSE OutputLoop(Tail(ls), Merge(acc, Merge(JsonPart(Head(ls)), t)))
OutputLoop(ls, acc) ==
    IF ls = <<>> THEN acc ELSE OutputStep(TextPart(Head(ls)), ls, acc)

\* GetOutput: the dict built from what GetRawOutput returned
\* return {"input": ..., "reason": parseReason(lines), "raw": "\n".join(lines), ...}
OutputReturn(parts, reason, texts, f) ==
    IF Raised(reason) THEN reason
    ELSE [input |-> parts.input,
          derivations |-> parts.derivations,
          answers |-> parts.answers,
          executions |-> parts.executions,
          reason |-> reason,
          selections |-> parts.selections,
          raw |-> Join(texts, <<"\n">>),
          requestOutputArgs |-> f]
OutputAfterLoop(parts, texts, f) ==
    IF Raised(parts) THEN parts
    ELSE OutputReturn(parts, parseReason(texts), texts, f)
OutputOfTexts(texts, f) == OutputAfterLoop(OutputLoop(texts, NoParts), texts, f)
OutputDict(ls, f) == OutputOfTexts(TextsOf(ls), f)
DropsFlag(ls, f) ==
    IF Raised(OutputDict(ls, f)) THEN OutputDict(ls, f)
    ELSE [OutputDict(ls, f) EXCEPT !.requestOutputArgs = FALSE]
GetOutput(ls, f) == OutputDict(ls, f)

\* GetStats: the loop over the lines, from the dict d built so far
\* left = line.split(':')[0].strip().replace(' ', '_')
\* right = float(line.split(':')[1].strip()); except (ValueError, IndexError): pass
RECURSIVE NarStatsLoop(_, _)
NarStatsLoop(out, d) ==
    IF out = <<>> THEN d
    ELSE LET line == Head(out)
             parts == Split(line, ":") IN
         IF /\ Contains(line, <<":">>)
            /\ ~StartsWith(line, CommentMarker)
            /\ IsFloat(Strip(parts[2]))
         THEN NarStatsLoop(Tail(out),
                           DictSet(d, Replace(Strip(parts[1]), " ", "_"),
                                   FloatValue(Strip(parts[2]))))
         ELSE NarStatsLoop(Tail(out), d)

\* the lines written before a read: the command lines `cs` of the operation,
\* each flushed, then GetRawOutput: lines = [], requestOutputArgs = False,
\* write "0" and flush.  `m` is what the read is made for: "output"
\* (GetOutput) or "stats" (GetStats)
NarWrite(cs, m) ==
    IF alive
    THEN /\ stdin' = stdin \o cs \o <<CmdZero>>
         /\ lines' = NewList(heap)
         /\ heap' = Append(heap, <<>>)
         /\ flag' = FALSE
         /\ mode' = m
         /\ pc' = "readline"
         /\ UNCHANGED exc
    ELSE /\ exc' = "BrokenPipeError"
         /\ pc' = "idle"
         /\ UNCHANGED <<stdin, lines, heap, flag, mode>>

\* AddInput("*volume=100", Print=False) when the module is imported
NarImport ==
    /\ pc = "import"
    /\ NarWrite(<<CmdVolume>>, "output")
    /\ UNCHANGED <<life, variant, timeout, elapsed, waited, engCmd, alive, pipe,
                   reader, queue, batches, emitted, result, flood, env, timely,
                   lastArr>>

\* AddInput(narsese): write narsese and flush; if narsese == "*stats":
\* GetStats (which writes "*stats" and flushes), else GetOutput
NarAddInput ==
    /\ variant = "narpy"
    /\ pc = "idle"
    /\ Len(batches) <= env.cmds
    /\ \E call \in env.calls :
         /\ call.op = "add_input"
         /\ life' = [life EXCEPT !.call = call]
         /\ IF call.arg = CmdStats
            THEN NarWrite(<<call.arg, CmdStats>>, "stats")
            ELSE NarWrite(<<call.arg>>, "output")
    /\ UNCHANGED <<variant, timeout, elapsed, waited, engCmd, alive, pipe,
                   reader, queue, batches, emitted, result, flood, env, timely,
                   lastArr>>

\* GetStats(usedNAR): write "*stats" and flush, then GetRawOutput
NarGetStats ==
    /\ variant = "narpy"
    /\ pc = "idle"
    /\ Len(batches) <= env.cmds
    /\ \E call \in env.calls :
         /\ call.op = "stats"
         /\ life' = [life EXCEPT !.call = call]
         /\ NarWrite(<<CmdStats>>, "stats")
    /\ UNCHANGED <<variant, timeout, elapsed, waited, engCmd, alive, pipe,
                   reader, queue, batches, emitted, result, flood, env, timely,
                   lastArr>>

\* the caller gets the value `ret`, or the exception raised in its place
NarReturned(ret) ==
    IF Raised(ret)
    THEN exc' = ret.name /\ UNCHANGED result
    ELSE result' = ret /\ UNCHANGED exc

\* GetRawOutput returns (lines, requestOutputArgs); GetOutput returns its
\* dict, GetStats its mapping
NarReturn(h, f, why, endN) ==
    /\ heap' = h
    /\ flag' = f
    /\ NarReturned(IF mode = "stats"
                   THEN StatsSnapshot(NarStatsLoop(TextsOf(h[lines]), <<>>))
                   ELSE GetOutput(h[lines], f))
    /\ batches' = Append(batches, [cmd |-> Len(stdin), ref |-> lines,
                                   mode |-> mode, by |-> why, end |-> endN,
                                   call |-> life.call])
    /\ pc' = "idle"
    /\ mode' = "none"
    /\ lines' = 0

\* line = usedNAR.stdout.readline() returns a line
NarReadLine ==
    /\ pc = "readline"
    /\ pipe # <<>>
    /\ pipe' = Tail(pipe)
    /\ LET raw == Head(pipe)
           item == [cmd |-> raw.cmd, n |-> raw.n, text |-> Strip(raw.text),
                    wr |-> Len(stdin)]
           h == IF item.text # <<>>
                THEN [heap EXCEPT ![lines] = Append(@, item)]
                ELSE heap IN
       IF Len(raw.text) = 0 THEN NarReturn(heap, flag, "eof", 0)
       ELSE IF IsDoneMessage(item.text) THEN NarReturn(heap, flag, "done", raw.n)
       ELSE IF IsArgsRequest(item.text) THEN NarReturn(h, TRUE, "args", raw.n)
       ELSE /\ heap' = h
            /\ UNCHANGED <<flag, result, batches, pc, mode, lines, exc>>
    /\ UNCHANGED <<life, variant, timeout, elapsed, waited, stdin, engCmd, alive,
                   reader, queue, emitted, flood, env, timely, lastArr>>

\* readline returns '' at end of stream: if not line: break
NarReadEOF ==
    /\ pc = "readline"
    /\ pipe = <<>>
    /\ ~alive
    /\ NarReturn(heap, flag, "eof", 0)
    /\ UNCHANGED <<life, variant, timeout, elapsed, waited, stdin, engCmd, alive,
                   pipe, reader, queue, emitted, flood, env, timely,
                   lastArr>>

-----------------------------------------------------------------------------
(* Specifications *)

\* the state after Popen and reader.start()
InitOf(v, e) ==
    /\ variant = v
    /\ env = e
    /\ pc = CASE v = "working" -> "sleep"
            [] v = "threaded" -> "check"
            [] OTHER -> "import"
    /\ mode = IF v = "threaded" THEN "startup" ELSE "none"
    /\ timeout = IF v = "threaded" THEN ThreadedInitWait ELSE 0
    /\ elapsed = 0
    /\ waited = 0
    /\ stdin = <<>>
    /\ engCmd = 0
    /\ alive = TRUE
    /\ pipe = <<>>
    /\ reader = IF v = "narpy" THEN "none" ELSE "running"
    /\ queue = <<>>
    /\ heap = <<>>
    /\ lines = 0
    /\ batches = <<>>
    /\ emitted = <<>>
    /\ exc = "none"
    /\ flag = FALSE
    /\ result = <<>>
    /\ flood = "off"
    /\ timely = FALSE
    /\ lastArr = -1
    /\ life = [exists |-> TRUE, popen |-> 1,
               threads |-> IF v = "narpy" THEN 0 ELSE 1, msg |-> <<>>,
               held |-> "local", call |-> InitCall, calls |-> 0,
               sig |-> "none", how |-> "none", ret |-> "idle"]

Init == InitOf("working", [vocab |-> Menu, lines |-> MaxLines, cmds |-> MaxCmds,
                           calls |-> {AddInputStmt}])

Engine == EngineEmit \/ EngineDie
Reader == ReaderRead \/ ReaderEOF \/ ReaderFail
Client == SleepDone \/ Check \/ GetLine \/ GetEmpty \/ Send

Next == Engine \/ Reader \/ Client \/ Tick

Spec == Init /\ [][Next]_vars

\* NAR.py
InitNarPy == InitOf("narpy", [vocab |-> NarPyMenu, lines |-> MaxLines + 1,
                              cmds |-> MaxCmds, calls |-> {AddInputStmt}])

NarClient == NarImport \/ NarAddInput \/ NarReadLine \/ NarReadEOF

NextNarPy == Engine \/ NarClient

SpecNarPy == InitNarPy /\ [][NextNarPy]_vars

\* NAR.py asked for its statistics, through AddInput("*stats") and through
\* GetStats
NarStatsCalls == {Call("add_input", CmdStats, 0), Call("stats", <<>>, 0)}

InitNarStats == InitOf("narpy", [vocab |-> {RawStat, RawNote, RawCycleDone},
                                 lines |-> NarStatsLines, cmds |-> NarStatsCmds,
                                 calls |-> NarStatsCalls])

NextNarStats == Engine \/ NarClient \/ NarGetStats

SpecNarStats == InitNarStats /\ [][NextNarStats]_vars

\* Both queue-based adapters, with an engine that may also write without end.
\* The calling thread keeps running, time keeps passing, and a flooding
\* engine keeps writing.
LiveEnv == [vocab |-> PlainMenu, lines |-> LiveLines, cmds |-> LiveCmds,
            calls |-> {AddInputStmt}]

InitLive == InitOf("working", LiveEnv) \/ InitOf("threaded", LiveEnv)

NextLive == Next \/ FloodStart \/ FloodPut

SpecLive ==
    /\ InitLive
    /\ [][NextLive]_vars
    /\ WF_vars(Client)
    /\ WF_vars(Tick)
    /\ WF_vars(FloodPut)

\* The public operations of a NAR_working client, with an engine that writes
\* stats lines.
OpsCalls ==
    {AddInputStmt, Call("add_input", CmdStats, 0), Call("reset", <<>>, 0),
     Call("cycles", <<>>, CyclesN), Call("stats", <<>>, 0)}

InitOps == InitOf("working", [vocab |-> StatsMenu, lines |-> OpsLines,
                              cmds |-> OpsCmds, calls |-> OpsCalls])

SpecOps == InitOps /\ [][Next]_vars

\* The life of a NAR_working client, from before its construction to the end
\* of the program.
LifeEnv == [vocab |-> {RawPlain}, lines |-> LifeLines, cmds |-> LifeCmds,
            calls |-> {AddInputStmt}]

InitLife ==
    /\ variant = "working"
    /\ env = LifeEnv
    /\ pc = "new"
    /\ mode = "none"
    /\ timeout = 0
    /\ elapsed = 0
    /\ waited = 0
    /\ stdin = <<>>
    /\ engCmd = 0
    /\ alive = FALSE
    /\ pipe = <<>>
    /\ reader = "none"
    /\ queue = <<>>
    /\ heap = <<>>
    /\ lines = 0
    /\ batches = <<>>
    /\ emitted = <<>>
    /\ exc = "none"
    /\ flag = FALSE
    /\ result = <<>>
    /\ flood = "off"
    /\ timely = FALSE
    /\ lastArr = -1
    /\ \E e \in BOOLEAN :
          life = [exists |-> e, popen |-> 0, threads |-> 0, msg |-> <<>>,
                  held |-> "local", call |-> InitCall, calls |-> 0,
                  sig |-> "none", how |-> "none", ret |-> "idle"]

Program == Construct \/ Terminate \/ WaitDone \/ WaitTimeout \/ ProgramEnds \/ AtExit

NextLife == Engine \/ EngineSignal \/ Reader \/ Client \/ Tick \/ Program

SpecLife == InitLife /\ [][NextLife]_vars

-----------------------------------------------------------------------------
(* Properties of the queue-based batch reader of NAR_working (Spec) *)

\* identity and text of each line of a list
Shown(ls) == [j \in 1..Len(ls) |-> <<ls[j].n, ls[j].text>>]

\* what the reader thread makes of raw lines
Trimmed(raws) == [j \in 1..Len(raws) |-> <<raws[j].n, RStrip(raws[j].text)>>]

\* the raw lines the engine wrote in answer to command i
RECURSIVE ResponseTo(_, _)
ResponseTo(i, raws) ==
    IF raws = <<>> THEN <<>>
    ELSE IF Head(raws).cmd = i THEN <<Head(raws)>> \o ResponseTo(i, Tail(raws))
    ELSE ResponseTo(i, Tail(raws))

CommandBatches == {i \in 1..Len(batches) : batches[i].mode = "batch"}

\* C1: every line of the batch returned for a command arrived after that
\* command was written, and none was produced for an earlier command (stated
\* for the lines that answer a command; banner lines are left aside).
C1_NoEarlierLine ==
    \A i \in CommandBatches :
        \A j \in 1..Len(Batch(batches[i])) :
            Batch(batches[i])[j].cmd >= 1 =>
                /\ Batch(batches[i])[j].wr >= batches[i].cmd
                /\ Batch(batches[i])[j].cmd >= batches[i].cmd

\* C2: the batch returned for command i holds no line the engine produced in
\* answer to command i+1 or a later command.
C2_NoLaterLine ==
    \A i \in CommandBatches :
        \A j \in 1..Len(Batch(batches[i])) :
            Batch(batches[i])[j].cmd <= batches[i].cmd

\* the batch of command 1 holds a line of command 1 while the engine has
\* already written a line in answer to command 2
C2_Witness ==
    /\ Len(stdin) = 2
    /\ \E i \in CommandBatches :
          /\ batches[i].cmd = 1
          /\ \E j \in 1..Len(Batch(batches[i])) : Batch(batches[i])[j].cmd = 1
    /\ \E k \in 1..Len(emitted) : emitted[k].cmd = 2

\* the engine's answer to command i is complete: lines, then the marker, and
\* all of it has been put on the queue
AnsweredWithDone(i) ==
    LET resp == ResponseTo(i, emitted) IN
    /\ resp # <<>>
    /\ RStrip(Last(resp).text) = DoneMarker
    /\ \A j \in 1..(Len(resp) - 1) : RStrip(resp[j].text) # DoneMarker
    /\ ResponseTo(i, pipe) = <<>>

\* C3: if the queue is empty when command i is written and the engine answers
\* it with lines then '//*done', all arriving before the deadline and less
\* than a poll interval apart, the batch of command i is exactly that answer.
C3_ExactResponse ==
    ( /\ pc = "idle"
      /\ Len(stdin) >= 1
      /\ batches # <<>>
      /\ Last(batches).mode = "batch"
      /\ Last(batches).cmd = Len(stdin)
      /\ timely
      /\ AnsweredWithDone(Len(stdin)) )
    => Shown(Batch(Last(batches))) = Trimmed(ResponseTo(Len(stdin), emitted))

\* C5: a batch read never lasts beyond its deadline.
C5_ReturnsByDeadline == InDrain => elapsed <= timeout

\* C6: when the deadline or the idle grace ends a command's batch read (no
\* line is dequeued by that step), the read returns the lines collected so
\* far, no exception is raised and the engine is left running; while the
\* caller is idle nothing is taken from the queue.
C6_TimeoutReturnsNormally ==
    [][ /\ ( InDrain /\ mode = "batch" /\ pc' = "idle" /\ queue' = queue )
           => /\ exc' = "none"
              /\ alive' = alive
              /\ batches' # <<>> /\ Len(batches') = Len(batches) + 1
              /\ Last(batches').ref = lines
              /\ heap'[lines] = heap[lines]
        /\ ( pc = "idle" /\ pc' = "idle" )
           => /\ Len(queue') >= Len(queue)
              /\ SubSeq(queue', 1, Len(queue)) = queue ]_vars

\* a command's batch ended without a terminator and a line arrived later
C6_Witness ==
    /\ pc = "idle"
    /\ exc = "none"
    /\ batches # <<>>
    /\ Last(batches).mode = "batch"
    /\ Last(batches).by \in {"deadline", "idle"}
    /\ \E j \in 1..Len(queue) : queue[j].wr = Len(stdin) /\ queue[j].cmd = Len(stdin)

\* C7: an empty wait of one grace interval ends the batch exactly when a line
\* has been collected, returning the lines collected; with none collected the
\* batch ends only at the deadline.
C7_IdleGrace ==
    [][ /\ ( pc = "get" /\ queue = <<>> /\ pc' # "get" )
           => IF Lines # <<>>
              THEN /\ pc' = "idle"
                   /\ Len(batches') = Len(batches) + 1
                   /\ Shown(heap'[Last(batches').ref]) = Shown(Lines)
              ELSE /\ pc' = "check"
                   /\ batches' = batches
        /\ ( pc = "check" /\ pc' = "idle" /\ Lines = <<>> )
           => elapsed >= timeout ]_vars

\* a batch of k >= 1 lines ended on the idle grace, and another, empty one,
\* ended on the deadline
C7_Witness ==
    /\ \E i \in 1..Len(batches) :
          batches[i].by = "idle" /\ Len(Batch(batches[i])) >= 1
    /\ \E i \in 1..Len(batches) :
          batches[i].by = "deadline" /\ Batch(batches[i]) = <<>>

\* C10: the lines dequeued by the successive batch reads, in call order, are
\* a prefix of the lines the engine wrote (right-trimmed): nothing reordered,
\* duplicated or skipped.
C10_PrefixOfEmitted ==
    LET deq == Shown(Concat(heap)) IN
    /\ Len(deq) <= Len(emitted)
    /\ deq = SubSeq(Trimmed(emitted), 1, Len(deq))

\* two reads each returned lines
C10_Witness ==
    /\ Len(batches) >= 2
    /\ \E i, k \in 1..Len(batches) :
          i < k /\ Batch(batches[i]) # <<>> /\ Batch(batches[k]) # <<>>

\* C11: the reader thread puts only non-empty, right-trimmed lines on the
\* queue: the queue never holds an empty string.
C11_NoEmptyOnQueue ==
    \A j \in 1..Len(queue) :
        /\ queue[j].text # <<>>
        /\ queue[j].text = RStrip(queue[j].text)

-----------------------------------------------------------------------------
(* Termination of the queue-based batch readers (SpecLive) *)

\* C4: every call of the batch reader eventually returns, whatever the
\* engine does.
C4_DrainReturns == InDrain ~> (pc = "idle")

\* a command's batch read returned at its deadline while the engine was
\* writing without end
C4_Witness ==
    /\ pc = "idle"
    /\ flood # "off"
    /\ batches # <<>>
    /\ Last(batches).mode = "batch"
    /\ Last(batches).by = "deadline"
    /\ Len(Batch(Last(batches))) >= 2

\* the texts the reader thread makes of the lines the engine can write
EngineTexts == {RStrip(raw) : raw \in env.vocab}

\* C12: when the reader thread stops (end of stream or failed read) it puts
\* nothing on the queue and raises nothing into the caller; the queue holds
\* engine lines only; once the thread has stopped, the lines queued before are
\* taken from the head in order and collected; and a batch read in progress
\* when the engine has died still returns.
C12_ReaderStopsCleanly ==
    /\ [](\A j \in 1..Len(queue) : queue[j].text \in EngineTexts)
    /\ [][ /\ reader' # reader
              => /\ reader' = "exited"
                 /\ queue' = queue
                 /\ exc' = exc
                 /\ pc' = pc
                 /\ heap' = heap /\ batches' = batches
           /\ ( reader = "exited" /\ queue' # queue )
              => /\ queue' = Tail(queue)
                 /\ ( variant = "working"
                      => heap'[lines] = Append(heap[lines], Head(queue)) ) ]_vars
    /\ ( InDrain /\ ~alive ) ~> ( pc = "idle" )

\* the engine died and the reader thread stopped during a command's batch
\* read, which returned the lines queued before
C12_Witness ==
    /\ ~alive
    /\ reader = "exited"
    /\ pc = "idle"
    /\ exc = "none"
    /\ batches # <<>>
    /\ Last(batches).mode = "batch"
    /\ Last(batches).by \in {"deadline", "idle"}
    /\ Batch(Last(batches)) # <<>>

-----------------------------------------------------------------------------
(* The life of the client (SpecLife) *)

\* a call of terminate() returns in this step
TerminateReturns == life'.calls = life.calls + 1

\* a call of terminate() begins in this step
TerminateBegins == pc \in {"idle", "atexit"} /\ life'.call = TerminateCall /\ pc' # "ended"

\* C13: each of two calls of terminate() returns without raising and leaves
\* the engine process terminated; a call on a process that has already
\* terminated changes nothing.
C13_TerminateTwice ==
    [][ TerminateReturns
        => /\ exc' = exc
           /\ ~alive'
           /\ ( life.calls >= 1 /\ ~alive /\ pc # "wait" )
              => /\ UNCHANGED <<stdin, alive, pipe, reader, queue, heap, batches,
                                emitted, result>>
                 /\ life'.sig = life.sig ]_vars

\* C14: terminate() first writes quit and waits; a failed write or an engine
\* still alive at the end of the wait is not raised into the caller; and once
\* a call of terminate() has returned the engine process no longer runs,
\* whatever the engine does.
C14_TerminateKills ==
    /\ [][ /\ ( TerminateBegins /\ alive )
              => /\ stdin' = Append(stdin, CmdQuit)
                 /\ pc' = "wait"
           /\ ( TerminateBegins \/ TerminateReturns ) => exc' = exc ]_vars
    /\ []( life.calls >= 1 => ~alive )

\* C15: when the program has ended, by whatever path, the engine process its
\* client started has been terminated exactly once.
C15_TerminatedOnce ==
    ( pc = "ended" /\ life.popen >= 1 ) => life.calls = 1

\* C16: with no engine binary at the expected place, the constructor raises
\* at once an error whose message names the expected path and the remedy; no
\* process is spawned and no reader thread started.
C16_MissingBinaryFails ==
    ( ~life.exists /\ pc # "new" )
    => /\ pc \in {"failed", "atexit", "ended"}
       /\ exc = "FileNotFoundError"
       /\ \E i \in 1..Len(life.msg) : life.msg[i] = NativeBinary
       /\ \E i \in 1..Len(life.msg) : life.msg[i] = Remediation
       /\ life.popen = 0
       /\ life.threads = 0
       /\ ~alive
       /\ reader = "none"

\* the constructor has raised for want of the binary
C16_Witness ==
    /\ ~life.exists
    /\ pc = "failed"
    /\ exc = "FileNotFoundError"

\* C17: a command sent once the engine has exited raises into the caller:
\* nothing is written, no batch read begins, no batch is returned and the
\* queue keeps its content.
C17_SendAfterExitFails ==
    [][ ( pc = "idle" /\ ~alive /\ life'.call # life.call
          /\ life'.call.op = "add_input" )
        => /\ exc' = "BrokenPipeError"
           /\ pc' = "idle"
           /\ UNCHANGED <<stdin, queue, heap, lines, batches, result, mode>> ]_vars

\* a send failed on an engine that had exited, with a line still queued
C17_Witness ==
    /\ pc = "idle"
    /\ ~alive
    /\ exc = "BrokenPipeError"
    /\ life.call.op = "add_input"
    /\ queue # <<>>
    /\ stdin = <<>>

-----------------------------------------------------------------------------
(* The public operations of NAR_working (SpecOps) *)

\* t is the decimal text of the natural number n
DecimalTextOf(t, n) ==
    /\ t # <<>>
    /\ AllDigits(t)
    /\ Len(t) > 1 => t[1] # "0"
    /\ NatOf(t) = n

\* C18: each public operation writes one command line and then makes one
\* batch read: a line is written only when no batch read is in progress, the
\* read of that line begins with the write, reset writes '*reset', cycles(n)
\* the decimal text of n and stats '*stats', and every line written has had
\* exactly one batch read once the operation has returned.
C18_OneWriteOneRead ==
    /\ [][ stdin' # stdin
           => /\ pc = "idle"
              /\ Len(stdin') = Len(stdin) + 1
              /\ SubSeq(stdin', 1, Len(stdin)) = stdin
              /\ pc' = "check" /\ mode' = "batch"
              /\ life'.call.op = "add_input" => Last(stdin') = life'.call.arg
              /\ life'.call.op = "reset" => Last(stdin') = CmdReset
              /\ life'.call.op = "cycles" => DecimalTextOf(Last(stdin'), life'.call.n)
              /\ life'.call.op = "stats" => Last(stdin') = CmdStats ]_vars
    /\ []( Cardinality(CommandBatches) + (IF InDrain /\ mode = "batch" THEN 1 ELSE 0)
           = Len(stdin) )
    /\ []( \A i \in CommandBatches :
              Cardinality({k \in CommandBatches : batches[k].cmd = batches[i].cmd}) = 1 )

\* cycles(n) and reset() have each written their line and had their batch
C18_Witness ==
    /\ pc = "idle"
    /\ Len(stdin) = 2
    /\ \E i, k \in CommandBatches :
          /\ batches[i].call.op = "cycles"
          /\ batches[k].call.op = "reset"

\* C20: add_input called with the reserved command '*stats' returns the stats
\* mapping built from the stats lines of that call's batch.
C20_StatsCommandReturnsMapping ==
    ( /\ pc = "idle"
      /\ batches # <<>>
      /\ Last(batches).mode = "batch"
      /\ Last(batches).call.op = "add_input"
      /\ Last(batches).call.arg = CmdStats )
    => result = StatsSnapshot(StatsLoop(TextsOf(Batch(Last(batches))), <<>>))

-----------------------------------------------------------------------------
(* Stats queries of NAR.py (SpecNarStats) *)

\* the lines operation i wrote to the engine
WrittenBy(i) ==
    SubSeq(stdin, (IF i = 1 THEN 0 ELSE batches[i - 1].cmd) + 1, batches[i].cmd)

IsStatsQuery(call) ==
    \/ call.op = "stats"
    \/ call.op = "add_input" /\ call.arg = CmdStats

\* C19: AddInput('*stats') and GetStats(proc) do the same: each writes the
\* stats command once, then the flush command '0' once, and returns the stats
\* mapping built from the batch read after them.
C19_StatsEquivalent ==
    /\ \A i \in 1..Len(batches) :
          IsStatsQuery(batches[i].call) => WrittenBy(i) = <<CmdStats, CmdZero>>
    /\ ( pc = "idle" /\ batches # <<>> /\ IsStatsQuery(Last(batches).call) )
       => result = StatsSnapshot(NarStatsLoop(TextsOf(Batch(Last(batches))), <<>>))

-----------------------------------------------------------------------------
(* Terminator markers *)

\* the three terminator markers, as the engine writes them
CycleDoneMessage == RStrip(RawCycleDone)
ArgsRequestMarker == RStrip(RawArgs)
TerminatorMarkers == {DoneMarker, CycleDoneMessage, ArgsRequestMarker}

\* C8: the batch reader ends the batch at once on a line equal to any of the
\* three terminator markers (stated for NAR_working's reader, under Spec).
C8_EveryMarkerEndsBatch ==
    [][ ( pc = "get" /\ queue # <<>> /\ queue' = Tail(queue)
          /\ Head(queue).text \in TerminatorMarkers )
        => pc' = "idle" ]_vars

\* C9: the dict GetOutput returns has requestOutputArgs true exactly when the
\* line that ended the read is the operation-arguments-requested marker.
EndedOnArgsRequest(b) ==
    /\ b.end > 0
    /\ Contains(Lower(Strip(emitted[b.end].text)), ArgsExpected)

C9_FlagIffArgsRequest ==
    ( pc = "idle" /\ batches # <<>> )
    => /\ result.requestOutputArgs = EndedOnArgsRequest(Last(batches))
       /\ result.requestOutputArgs = flag

\* one read ended on the marker, another on the completion message or at end
\* of stream
C9_Witness ==
    /\ pc = "idle"
    /\ batches # <<>>
    /\ result.requestOutputArgs
    /\ Last(batches).by = "args"
    /\ \E i \in 1..Len(batches) : batches[i].by \in {"done", "eof"}

-----------------------------------------------------------------------------
(* The start-up drain and the terminator of NAR_working's batch reader (Spec) *)

\* a banner line: written by the engine in answer to no command and put on
\* the queue before the first command was written
IsBanner(item) == item.cmd = 0 /\ item.wr = 0

\* the engine's banner holds ordinary lines only, no terminator
PlainBanner ==
    \A k \in 1..Len(emitted) :
        emitted[k].cmd = 0 => RStrip(emitted[k].text) # DoneMarker

\* C29: no banner line appears in the batch of any command: the start-up
\* drain removes all of the banner, whatever the pauses in it (stated for a
\* banner of ordinary lines).
C29_NoBannerInBatch ==
    PlainBanner =>
        \A i \in CommandBatches :
            \A j \in 1..Len(Batch(batches[i])) :
                ~IsBanner(Batch(batches[i])[j])

\* C30: a list returned by _drain_queue holds '//*done' at most once and only
\* as its last element; the step that dequeues it ends the read and takes
\* nothing else from the queue, so the lines behind it stay for the next read.
C30_TerminatorLast ==
    /\ [](\A i \in 1..Len(batches) :
            \A j \in 1..Len(Batch(batches[i])) :
                Batch(batches[i])[j].text = DoneMarker
                    => j = Len(Batch(batches[i])))
    /\ [][ ( pc = "get" /\ queue # <<>> /\ Head(queue).text = DoneMarker
             /\ Len(queue') < Len(queue) )
           => /\ pc' = "idle"
              /\ queue' = Tail(queue)
              /\ Len(batches') = Len(batches) + 1
              /\ Last(heap'[Last(batches').ref]).n = Head(queue).n ]_vars

\* a read ended on the terminator while a line was queued behind it
C30_Witness ==
    /\ pc = "idle"
    /\ batches # <<>>
    /\ Last(batches).by = "terminator"
    /\ Batch(Last(batches)) # <<>>
    /\ Last(Batch(Last(batches))).text = DoneMarker
    /\ queue # <<>>
    /\ queue[1].n > Last(batches).end

-----------------------------------------------------------------------------
(* The end of NAR.py's read (SpecNarFair) *)

\* NAR.py with a caller that keeps running: a step of the caller that can be
\* taken is taken.  The engine is under no obligation: it may stay alive and
\* write nothing.
SpecNarFair == InitNarPy /\ [][NextNarPy]_vars /\ WF_vars(NarClient)

\* C27: GetRawOutput stops on the completion message or when a timeout
\* elapses: a call of AddInput returns even if the engine stays alive and
\* never writes a completion message.
C27_ReadReturns == (pc = "readline") ~> (pc = "idle")

-----------------------------------------------------------------------------
(* NAR.py asked to run inference cycles: AddInput("5") (SpecNarCycles) *)

CmdFive == <<"5">>
RawFiveDone == <<"d","o","n","e"," ","w","i","t","h"," ","5"," ","a","d","d","i","t","i","o","n","a","l"," ","i","n","f","e","r","e","n","c","e"," ","s","t","e","p","s",".","\n">>

NarCyclesCalls == {AddInputStmt, Call("add_input", CmdFive, 0)}

InitNarCycles == InitOf("narpy", [vocab |-> {RawPlain, RawCycleDone, RawFiveDone},
                                  lines |-> NarCyclesLines,
                                  cmds |-> NarCyclesCmds,
                                  calls |-> NarCyclesCalls])

SpecNarCycles == InitNarCycles /\ [][NextNarPy]_vars

\* the completion message the engine writes once it has run the cycles of
\* the command c, a bare integer
CompletionOf(c) == DoneWith \o <<" ">> \o c \o <<" ">> \o InferenceSteps \o <<".">>

\* the engine has written completion messages only as the last line of its
\* answer to a bare integer, naming that integer, and once
EngineHonest ==
    \A k \in 1..Len(emitted) :
        IsDoneMessage(Strip(emitted[k].text)) =>
            /\ emitted[k].cmd >= 1
            /\ AllDigits(stdin[emitted[k].cmd])
            /\ Strip(emitted[k].text) = CompletionOf(stdin[emitted[k].cmd])
            /\ \A j \in (k + 1)..Len(emitted) : emitted[j].cmd > emitted[k].cmd

\* C28: when AddInput(c) returns (not at end of stream), the read has
\* consumed the engine's answer up to and including the completion message
\* of its own '0' flush, the last line written to the engine: no completion
\* message is left unread for the next call.
C28_FlushConsumed ==
    [][ ( pc = "readline" /\ pc' = "idle" /\ EngineHonest
          /\ Last(batches').by # "eof" )
        => /\ Last(batches').end > 0
           /\ IsDoneMessage(Strip(emitted[Last(batches').end].text))
           /\ emitted[Last(batches').end].cmd = Len(stdin) ]_vars

-----------------------------------------------------------------------------
(* The stats mapping (SpecStats, SpecNarStats) *)

\* stats() of NAR_working and GetStats of NAR_native_threaded, asked of an
\* engine that answers with statistic lines
InitStats ==
    \E v \in {"working", "threaded"} :
        InitOf(v, [vocab |-> StatLinesMenu, lines |-> StatsLines,
                   cmds |-> StatsCmds, calls |-> {Call("stats", <<>>, 0)}])

SpecStats == InitStats /\ [][Next]_vars

\* a line that yields a stats entry: it holds a colon and does not begin
\* with the comment marker
IsStatLine(t) == Contains(t, <<":">>) /\ ~StartsWith(t, CommentMarker)

\* the key of a stat line: the text left of its first colon, trimmed, its
\* inner spaces replaced by underscores
KeyOf(t) == Replace(Strip(SplitOnce(t, ":")[1]), " ", "_")

\* the value of a stat line: the text right of its first colon, as an
\* integer if it reads as one, else as a float, else as the text
ValueOf(t) ==
    LET right == Strip(SplitOnce(t, ":")[2]) IN
    IF IsInt(right) THEN IntValue(right)
    ELSE IF IsFloat(right) THEN FloatValue(right)
    ELSE StrValue(right)

\* the lines of the batch the last stats query read
StatsBatch == TextsOf(Batch(Last(batches)))

StatsReturned ==
    /\ pc = "idle"
    /\ batches # <<>>
    /\ IsStatsQuery(Last(batches).call)
    /\ exc = "none"

\* C21: in every variant the key of a stats entry is the text left of the
\* first colon of its line, trimmed, with inner spaces replaced by
\* underscores.
C21_KeyNormalised ==
    StatsReturned =>
        \A k \in 1..Len(result.snapshot) :
            \E j \in 1..Len(StatsBatch) :
                /\ IsStatLine(StatsBatch[j])
                /\ result.snapshot[k].key = KeyOf(StatsBatch[j])

\* C22: in every variant every line of the batch that holds a colon and does
\* not begin with '//' yields an entry, whose value is the text right of the
\* first colon read as an integer, else as a float, else kept as text (the
\* last such line of a key gives the value); no such line is dropped.
C22_EveryStatLineKept ==
    StatsReturned =>
        \A j \in 1..Len(StatsBatch) :
            IsStatLine(StatsBatch[j]) =>
                \E k \in 1..Len(result.snapshot) :
                    /\ Replace(result.snapshot[k].key, " ", "_") = KeyOf(StatsBatch[j])
                    /\ \E i \in j..Len(StatsBatch) :
                          /\ IsStatLine(StatsBatch[i])
                          /\ KeyOf(StatsBatch[i]) = KeyOf(StatsBatch[j])
                          /\ \A h \in (i + 1)..Len(StatsBatch) :
                                ~( IsStatLine(StatsBatch[h])
                                   /\ KeyOf(StatsBatch[h]) = KeyOf(StatsBatch[j]) )
                          /\ result.snapshot[k].value = ValueOf(StatsBatch[i])

-----------------------------------------------------------------------------
(* The dict of GetOutput in NAR.py (SpecNarOut) *)

\* lines of each shape GetOutput knows, a line of no known shape and the
\* cycle-completion message
OutMenu ==
    {RawExecuted, RawExecutedArgs, RawInput, RawDerived, RawAnswer,
     RawSelected, RawJsonExecution, RawJsonTask, RawOther, RawCycleDone}

InitNarOut == InitOf("narpy", [vocab |-> OutMenu, lines |-> NarOutLines,
                               cmds |-> NarOutCmds, calls |-> {AddInputStmt}])

SpecNarOut == InitNarOut /\ [][NextNarPy]_vars

\* an AddInput call has returned the dict of GetOutput
OutputReturned ==
    /\ pc = "idle"
    /\ batches # <<>>
    /\ Last(batches).mode = "output"
    /\ exc = "none"

\* the lines the last read collected
OutBatch == Batch(Last(batches))

\* the number of entries one line adds to the typed collections
Contribution(item) ==
    LET d == GetOutput(<<item>>, FALSE) IN
    Len(d.input) + Len(d.derivations) + Len(d.answers) + Len(d.selections)
        + Len(d.executions)

\* the entries the lines add to one collection, line by line
RECURSIVE Gathered(_, _)
Gathered(ls, c) ==
    IF ls = <<>> THEN <<>>
    ELSE GetOutput(<<Head(ls)>>, FALSE)[c] \o Gathered(Tail(ls), c)

TypedCollections == {"input", "derivations", "answers", "selections", "executions"}

\* a line of none of the shapes the adapter knows: no role prefix, no
\* operator sigil, no JSON value, no decision and no colon
NoKnownShape(t) ==
    /\ \A pre \in {InputPrefix, DerivedPrefix, RevisedPrefix, AnswerPrefix,
                   SelectedPrefix, Sigil, <<"{">>, <<"[">>} : ~StartsWith(t, pre)
    /\ ~Contains(t, <<":">>)

\* C23: in the dict GetOutput builds, the raw text holds every collected line
\* verbatim and in arrival order, each line adds an entry to at most one typed
\* collection, and a line of no known shape adds none.
C23_RawAndCollections ==
    OutputReturned =>
        /\ IF OutBatch = <<>> THEN result.raw = <<>>
           ELSE SplitStr(result.raw, <<"\n">>) = TextsOf(OutBatch)
        /\ \A c \in TypedCollections : result[c] = Gathered(OutBatch, c)
        /\ \A j \in 1..Len(OutBatch) :
              /\ Contribution(OutBatch[j]) <= 1
              /\ NoKnownShape(OutBatch[j].text) => Contribution(OutBatch[j]) = 0

\* a batch of three lines: a JSON value that holds both an operation and a
\* term, a role-prefixed line and a line of no known shape
C23_Witness ==
    /\ OutputReturned
    /\ Len(OutBatch) = 3
    /\ \E j \in 1..3 : OutBatch[j].text = RStrip(RawJsonExecution)
    /\ \E j \in 1..3 : OutBatch[j].text = RStrip(RawOther)
    /\ \E j \in 1..3 : OutBatch[j].text = RStrip(RawDerived)
    /\ Len(result.executions) = 1
    /\ Len(result.derivations) = 1

\* the tokens of an execution line after '^executed:'
ExecutionTokens(t) == SplitWs(SplitStr(t, ExecutedMarker)[2])

ArgsMarker == <<"a","r","g","s">>

\* the arguments an execution line declares: the tokens after its arguments
\* marker, up to the desire token; none without the marker
DeclaredArguments(t) ==
    LET toks == ExecutionTokens(t) IN
    IF \E i \in 1..Len(toks) : toks[i] = ArgsMarker
    THEN LET a == CHOOSE i \in 1..Len(toks) : toks[i] = ArgsMarker
             rest == SubSeq(toks, a + 1, Len(toks)) IN
         SelectSeq(rest, LAMBDA tok : ~StartsWith(tok, DesireMarker))
    ELSE <<>>

\* C24: parsing an execution line yields the operator name and the ordered
\* list of its arguments: empty for an operator invoked without arguments,
\* the declared arguments in their order otherwise.
C24_ExecutionArguments ==
    OutputReturned =>
        \A j \in 1..Len(OutBatch) :
            StartsWith(OutBatch[j].text, ExecutedMarker) =>
                \E k \in 1..Len(result.executions) :
                    LET e == result.executions[k]
                        args == DeclaredArguments(OutBatch[j].text) IN
                    /\ e = parseExecution(PyStr(OutBatch[j].text))
                    /\ Get(e, "operator", PyNone)
                          = PyStr(ExecutionTokens(OutBatch[j].text)[1])
                    /\ Get(e, "arguments", PyNone)
                          = PyList([i \in 1..Len(args) |-> PyStr(args[i])])

-----------------------------------------------------------------------------
(* The parse functions of NAR.py, called as test_compat_nar.py calls them,  *)
(* and the round trip through PrintedTask (SpecParse)                       *)

\* the parts a task is made of
TaskTerms == {<<"a">>, <<"<","b","i","r","d"," ","-","-",">"," ","a","n","i","m","a","l",">">>}
TaskPunctuations == {<<".">>, <<"!">>, <<"?">>}
TruthNumbers == {<<"1",".","0">>, <<"0",".","9">>, <<"0",".","5">>}

\* the type the engine gives a task of a punctuation
TypeOf(p) ==
    CASE p = <<"!">> -> PyStr(<<"g","o","a","l">>)
      [] p = <<"?">> -> PyStr(<<"q","u","e","s","t","i","o","n">>)
      [] OTHER -> PyStr(<<"b","e","l","i","e","f">>)

\* a truth value as the engine's JSON object
TruthObj(f, c) ==
    PyDict(<<[key |-> "frequency", value |-> PyFloat(f)],
             [key |-> "confidence", value |-> PyFloat(c)]>>)

\* a task as the engine's JSON object: with or without its type, its truth
\* and its occurrence time
TaskObj(term, p, typed, f, c, truthful, occ) ==
    PyDict(<<[key |-> "term", value |-> PyStr(term)]>>
           \o (IF typed THEN <<[key |-> "type", value |-> TypeOf(p)]>> ELSE <<>>)
           \o (IF truthful THEN <<[key |-> "truth", value |-> TruthObj(f, c)]>>
               ELSE <<>>)
           \o (IF occ = "absent" THEN <<>>
               ELSE <<[key |-> "occurrence-time",
                       value |-> IF occ = "eternal" THEN PyStr(<<"e","t","e","r","n","a","l">>)
                                 ELSE PyInt(<<"5">>)]>>))

\* a task in Narsese text form: term, punctuation, then its truth
TaskText(term, p, f, c) ==
    term \o p \o <<" ","T","r","u","t","h",":"," ","f","r","e","q","u","e","n","c","y","=">> \o f \o <<" ","c","o","n","f","i","d","e","n","c","e","=">> \o c

\* a truth value in text form, followed by another token
TruthText(f, c) == <<"f","r","e","q","u","e","n","c","y","=">> \o f \o <<" ","c","o","n","f","i","d","e","n","c","e","=">> \o c \o <<" ","d","t","=","0">>

\* the arguments of the calls: an object and a text
ParseTaskArgs ==
    {TaskObj(term, p, typed, f, g, truthful, occ) :
        term \in TaskTerms, p \in TaskPunctuations, typed \in BOOLEAN,
        f \in TruthNumbers, g \in TruthNumbers, truthful \in BOOLEAN,
        occ \in {"absent", "eternal", "time"}}
    \cup {PyStr(TaskText(term, p, f, g)) :
            term \in TaskTerms, p \in TaskPunctuations,
            f \in TruthNumbers, g \in TruthNumbers}
ParseTruthArgs ==
    {TruthObj(f, g) : f \in TruthNumbers, g \in TruthNumbers}
    \cup {PyStr(TruthText(f, g)) : f \in TruthNumbers, g \in TruthNumbers}
ParseArgs(op) == IF op = "parseTask" THEN ParseTaskArgs ELSE ParseTruthArgs

\* nothing returned yet
NoReturn == [value |-> PyNone, printed |-> PyNone, again |-> PyNone]

InitParse ==
    /\ variant = "narpy"
    /\ env = [vocab |-> {}, lines |-> 0, cmds |-> 0, calls |-> {}]
    /\ pc = "call"
    /\ mode = "none"
    /\ timeout = 0
    /\ elapsed = 0
    /\ waited = 0
    /\ stdin = <<>>
    /\ engCmd = 0
    /\ alive = TRUE
    /\ pipe = <<>>
    /\ reader = "none"
    /\ queue = <<>>
    /\ heap = <<>>
    /\ lines = 0
    /\ batches = <<>>
    /\ emitted = <<>>
    /\ exc = "none"
    /\ flag = FALSE
    /\ result = NoReturn
    /\ flood = "off"
    /\ timely = FALSE
    /\ lastArr = -1
    /\ \E op \in {"parseTask", "parseTruth"} :
         \E arg \in ParseArgs(op) :
            life = [exists |-> TRUE, popen |-> 1, threads |-> 0, msg |-> <<>>,
                    held |-> "local", call |-> Call(op, arg, 0), calls |-> 0,
                    sig |-> "none", how |-> "none", ret |-> "idle"]

\* parsed = NAR.parseTask(x); truth = NAR.parseTruth(x)
ParseCalled ==
    /\ pc = "call"
    /\ LET ret == IF life.call.op = "parseTask" THEN parseTask(life.call.arg)
                  ELSE parseTruth(life.call.arg) IN
       /\ result' = [result EXCEPT !.value = ret]
       /\ pc' = IF life.call.op = "parseTask" /\ ret # PyNone THEN "parsed"
                ELSE "returned"
    /\ UNCHANGED <<life, variant, mode, timeout, elapsed, waited, stdin, engCmd,
                   alive, pipe, reader, queue, heap, lines, batches, emitted,
                   exc, flag, flood, env, timely, lastArr>>

\* text = NAR.PrintedTask(parsed)
TaskPrinted ==
    /\ pc = "parsed"
    /\ LET text == PrintedTask(result.value) IN
       IF Raised(text)
       THEN exc' = text.name /\ pc' = "returned" /\ UNCHANGED result
       ELSE /\ result' = [result EXCEPT !.printed = text]
            /\ pc' = "printed"
            /\ UNCHANGED exc
    /\ UNCHANGED <<life, variant, mode, timeout, elapsed, waited, stdin, engCmd,
                   alive, pipe, reader, queue, heap, lines, batches, emitted,
                   flag, flood, env, timely, lastArr>>

\* again = NAR.parseTask(text)
TaskReparsed ==
    /\ pc = "printed"
    /\ result' = [result EXCEPT !.again = parseTask(result.printed)]
    /\ pc' = "returned"
    /\ UNCHANGED <<life, variant, mode, timeout, elapsed, waited, stdin, engCmd,
                   alive, pipe, reader, queue, heap, lines, batches, emitted,
                   exc, flag, flood, env, timely, lastArr>>

NextParse == ParseCalled \/ TaskPrinted \/ TaskReparsed

SpecParse == InitParse /\ [][NextParse]_vars

\* a call with a text has returned
TextCallReturned == pc = "returned" /\ life.call.arg.type = "str"

\* C26: parseTask, given a task in Narsese text form (term, punctuation, then
\* 'Truth: frequency=F confidence=C'), returns a task with that term, that
\* punctuation and the truth {F, C}; parseTruth, given the text
\* 'frequency=F confidence=C ...', returns {frequency: F, confidence: C};
\* neither returns None for a text.
C26_TextParsed ==
    TextCallReturned =>
        /\ result.value # PyNone
        /\ \A term \in TaskTerms, p \in TaskPunctuations,
              f \in TruthNumbers, g \in TruthNumbers :
              /\ ( life.call.op = "parseTask"
                   /\ life.call.arg = PyStr(TaskText(term, p, f, g)) )
                 => /\ Get(result.value, "term", PyNone) = PyStr(term)
                    /\ Get(result.value, "punctuation", PyNone) = PyStr(p)
                    /\ Get(result.value, "truth", PyNone) = TruthObj(f, g)
              /\ ( life.call.op = "parseTruth"
                   /\ life.call.arg = PyStr(TruthText(f, g)) )
                 => result.value = TruthObj(f, g)

\* the task parseTask returned is an eternal belief with a truth value
EternalBeliefWithTruth(task) ==
    /\ task.type = "dict"
    /\ Get(task, "punctuation", PyNone) = PyStr(<<".">>)
    /\ Get(task, "occurrenceTime", PyNone) = PyStr(<<"e","t","e","r","n","a","l">>)
    /\ Get(task, "truth", PyNone).type = "dict"

\* C25: rendering a parsed eternal belief that has a truth value with
\* PrintedTask and parsing the text again with parseTask yields a task with
\* the same term, punctuation and truth.
C25_RoundTrip ==
    ( /\ pc = "returned"
      /\ result.printed # PyNone
      /\ EternalBeliefWithTruth(result.value) )
    => /\ result.again.type = "dict"
       /\ \A k \in {"term", "punctuation", "truth"} :
             Get(result.again, k, PyNone) = Get(result.value, k, PyNone)

-----------------------------------------------------------------------------
(* Programs that drive no engine: what they share (pong_example.py's game,
   the differential test run) *)

\* the variables of the adapter and its engine
adapterVars == <<mode, timeout, elapsed, waited, stdin, engCmd, alive, pipe,
                 reader, queue, heap, lines, batches, emitted, flag, flood,
                 env, timely, lastArr>>

\* no adapter was started: nothing is written, read or queued
NoAdapter ==
    /\ env = [vocab |-> {}, lines |-> 0, cmds |-> 0, calls |-> {}]
    /\ mode = "none"
    /\ timeout = 0
    /\ elapsed = 0
    /\ waited = 0
    /\ stdin = <<>>
    /\ engCmd = 0
    /\ alive = FALSE
    /\ pipe = <<>>
    /\ reader = "none"
    /\ queue = <<>>
    /\ heap = <<>>
    /\ lines = 0
    /\ batches = <<>>
    /\ emitted = <<>>
    /\ flag = FALSE
    /\ flood = "off"
    /\ timely = FALSE
    /\ lastArr = -1

\* the program's position in its life, with the call it made last
Standalone(call) ==
    [exists |-> TRUE, popen |-> 0, threads |-> 0, msg |-> <<>>,
     held |-> "local", call |-> call, calls |-> 0, sig |-> "none",
     how |-> "none", ret |-> "idle"]

-----------------------------------------------------------------------------
(* pong_example.py: PongGame (SpecPong) *)

\* how many hits the model counts
MaxScore == 2

\* line = ['-'] * 11
Cells == 11

\* max(a, b), min(a, b), abs(a)
Max(a, b) == IF a >= b THEN a ELSE b
Min(a, b) == IF a <= b THEN a ELSE b
Abs(a) == IF a < 0 THEN 0 - a ELSE a

\* game = PongGame(): the object is kept in `result`, with what print_state
\* printed last
game == result

\* __init__
NewGame ==
    [ball_pos |-> 5, ball_dir |-> 1, paddle_pos |-> 5, score |-> 0,
     misses |-> 0, line |-> <<>>]

\* the actions execute_action is called with: the two it knows and another
PongActions == {"^left", "^right", "^up"}

InitPong ==
    /\ variant = "pong"
    /\ pc = "game"
    /\ exc = "none"
    /\ result = NewGame
    /\ life = Standalone(Call("__init__", <<>>, 0))
    /\ NoAdapter

\* reset(): ball_dir = random.choice([-1, 1])
PongReset ==
    /\ pc = "game"
    /\ \E d \in {-1, 1} :
         result' = [game EXCEPT !.ball_pos = 5, !.ball_dir = d, !.paddle_pos = 5]
    /\ life' = [life EXCEPT !.call = Call("reset", <<>>, 0)]
    /\ UNCHANGED <<variant, pc, exc>>
    /\ UNCHANGED adapterVars

\* if self.ball_pos <= 0 or self.ball_pos >= 10
\* (OnlyRightWall: a game whose left wall does not bounce)
OnlyRightWall(pos) == pos >= 10
HitsWall(pos) == pos <= 0 \/ pos >= 10

\* update_ball(): move, then bounce off the walls
BallAfter(g) ==
    IF HitsWall(g.ball_pos + g.ball_dir)
    THEN [g EXCEPT !.ball_dir = g.ball_dir * (-1),
                   !.ball_pos = Max(0, Min(10, g.ball_pos + g.ball_dir))]
    ELSE [g EXCEPT !.ball_pos = g.ball_pos + g.ball_dir]

PongUpdateBall ==
    /\ pc = "game"
    /\ result' = BallAfter(game)
    /\ life' = [life EXCEPT !.call = Call("update_ball", <<>>, 0)]
    /\ UNCHANGED <<variant, pc, exc>>
    /\ UNCHANGED adapterVars

\* execute_action(action)
PaddleAfter(g, action) ==
    IF action = "^left"
    THEN [g EXCEPT !.paddle_pos = Max(0, g.paddle_pos - 1)]
    ELSE IF action = "^right"
    THEN [g EXCEPT !.paddle_pos = Min(10, g.paddle_pos + 1)]
    ELSE g

PongExecuteAction ==
    /\ pc = "game"
    /\ \E action \in PongActions :
         /\ result' = PaddleAfter(game, action)
         /\ life' = [life EXCEPT !.call = Call("execute_action", action, 0)]
    /\ UNCHANGED <<variant, pc, exc>>
    /\ UNCHANGED adapterVars

\* check_hit(): a hit within one unit counts
PongCheckHit ==
    /\ pc = "game"
    /\ game.score < MaxScore
    /\ result' = IF Abs(game.ball_pos - game.paddle_pos) <= 1
                 THEN [game EXCEPT !.score = game.score + 1]
                 ELSE game
    /\ life' = [life EXCEPT !.call = Call("check_hit", <<>>, 0)]
    /\ UNCHANGED <<variant, pc, exc>>
    /\ UNCHANGED adapterVars

\* line[i] = c of a Python list of Cells items: an index from -Cells to
\* Cells - 1 names a cell (a negative one counts from the end)
InLine(i) == i >= 0 - Cells /\ i < Cells
CellOf(i) == IF i < 0 THEN i + Cells + 1 ELSE i + 1

\* print_state(): the line printed, or IndexError
PrintedLine(g) ==
    LET blank == [i \in 1..Cells |-> "-"]
        ball == [blank EXCEPT ![CellOf(g.ball_pos)] = "O"]
        both == [ball EXCEPT ![CellOf(g.paddle_pos)] = "|"] IN
    IF g.ball_pos = g.paddle_pos
    THEN [both EXCEPT ![CellOf(g.ball_pos)] = "X"]
    ELSE both

PongPrintState ==
    /\ pc = "game"
    /\ IF InLine(game.ball_pos) /\ InLine(game.paddle_pos)
       THEN /\ result' = [game EXCEPT !.line = PrintedLine(game)]
            /\ UNCHANGED <<exc, pc>>
       ELSE /\ exc' = "IndexError"
            /\ pc' = "raised"
            /\ UNCHANGED result
    /\ life' = [life EXCEPT !.call = Call("print_state", <<>>, 0)]
    /\ UNCHANGED variant
    /\ UNCHANGED adapterVars

NextPong ==
    \/ PongReset
    \/ PongUpdateBall
    \/ PongExecuteAction
    \/ PongCheckHit
    \/ PongPrintState

SpecPong == InitPong /\ [][NextPong]_vars

\* C39: after any sequence of reset, update_ball and execute_action calls,
\* ball_pos and paddle_pos are both within 0..10 and ball_dir is +1 or -1, so
\* print_state never indexes outside its 11-cell line.
C39_GameInBounds ==
    /\ game.ball_pos \in 0..10
    /\ game.paddle_pos \in 0..10
    /\ game.ball_dir \in {1, -1}
    /\ exc # "IndexError"
    /\ game.line # <<>> => Len(game.line) = Cells

\* the ball has bounced off the left wall, the paddle stands at the right
\* wall after a move to the right, and the state was printed
C39_Witness ==
    /\ game.ball_pos = 0
    /\ game.ball_dir = 1
    /\ game.paddle_pos = 10
    /\ game.line # <<>>
    /\ game.line[1] = "O"
    /\ game.line[Cells] = "|"

-----------------------------------------------------------------------------
(* src/test/integration/run_differential_tests.py (SpecDiff) *)

\* how many test files the run finds at most
MaxTests == 2

\* what run_ona_test returns: the output of a run that completed, "TIMEOUT",
\* or "ERROR: " and the exception
OutLeft == <<"^","e","x","e","c","u","t","e","d",":"," ","^","l","e","f","t"," ","d","e","s","i","r","e","=","0",".","7","5","\n">>
OutRight == <<"^","r","i","g","h","t"," ","e","x","e","c","u","t","e","d"," ","w","i","t","h"," ","a","r","g","s","\n">>
OutQuiet == <<"A","n","s","w","e","r",":"," ","a",".","\n">>
OutLearned == <<"/","/","*","c","o","n","c","e","p","t","s","\n","{","\"","t","e","r","m","\"",":"," ","\"","<","a"," ","=","/",">"," ","b",">","\"",","," ","\"","i","m","p","l","i","c","a","t","i","o","n","s","\"",":"," ","[","]","}","\n","/","/","*","d","o","n","e","\n","^","e","x","e","c","u","t","e","d",":"," ","^","l","e","f","t"," ","d","e","s","i","r","e","=","0",".","7","5","\n">>
OutTimeout == <<"T","I","M","E","O","U","T">>
OutError == <<"E","R","R","O","R",":"," ","x">>
Completed == {OutLeft, OutRight, OutQuiet, OutLearned}
RunOutcomes == Completed \cup {OutTimeout, OutError}

ExecutedWithArgs == <<"e","x","e","c","u","t","e","d"," ","w","i","t","h"," ","a","r","g","s">>
ConceptsMarker == <<"/","/","*","c","o","n","c","e","p","t","s">>
ImplicationsKey == <<"\"","i","m","p","l","i","c","a","t","i","o","n","s","\"",":">>
TermKey == <<"\"","t","e","r","m","\"",":">>
ImplicationCopula == <<"=","/",">">>
TimeoutText == <<"T","I","M","E","O","U","T">>
ErrorText == <<"E","R","R","O","R">>

\* parse_executions(output), line by line
ExecutionOf(line, parts) ==
    IF StartsWith(line, ExecutedMarker)
    THEN IF Len(parts) >= 2 THEN <<parts[2]>> ELSE <<>>
    ELSE IF Contains(line, ExecutedWithArgs)
    THEN IF Len(parts) >= 1 /\ StartsWith(parts[1], Sigil) THEN <<parts[1]>> ELSE <<>>
    ELSE <<>>

RECURSIVE ExecutionsIn(_)
ExecutionsIn(ls) ==
    IF ls = <<>> THEN <<>>
    ELSE ExecutionOf(Head(ls), SplitWs(Head(ls))) \o ExecutionsIn(Tail(ls))

parse_executions(output) == ExecutionsIn(Split(output, "\n"))

\* re.findall(r'"term":\s*"([^"]+)"', line): what follows each "term": key,
\* when it is a quoted text of one character or more (no text of this model
\* has a key that begins at the closing quote of a match)
TermBody(parts) ==
    IF Len(parts) >= 2 /\ parts[1] # <<>> THEN <<parts[1]>> ELSE <<>>
TermQuoted(t) ==
    IF t # <<>> /\ t[1] = "\"" THEN TermBody(Split(Tail(t), "\"")) ELSE <<>>

RECURSIVE TermsAfter(_)
TermsAfter(pieces) ==
    IF pieces = <<>> THEN <<>>
    ELSE TermQuoted(LStrip(Head(pieces))) \o TermsAfter(Tail(pieces))

FindTerms(line) == TermsAfter(Tail(SplitStr(line, TermKey)))

\* for match in matches: if '=/>' in match: implications.append(match)
RECURSIVE Implying(_)
Implying(ms) ==
    IF ms = <<>> THEN <<>>
    ELSE (IF Contains(Head(ms), ImplicationCopula) THEN <<Head(ms)>> ELSE <<>>)
         \o Implying(Tail(ms))

\* parse_implications(output): the loop, with in_concepts
RECURSIVE ImplicationsIn(_, _)
ImplicationsIn(ls, in_concepts) ==
    IF ls = <<>> THEN <<>>
    ELSE IF Contains(Head(ls), ConceptsMarker) THEN ImplicationsIn(Tail(ls), TRUE)
    ELSE IF Contains(Head(ls), DoneMarker) THEN ImplicationsIn(Tail(ls), FALSE)
    ELSE (IF in_concepts /\ Contains(Head(ls), ImplicationsKey)
          THEN Implying(FindTerms(Head(ls)))
          ELSE <<>>)
         \o ImplicationsIn(Tail(ls), in_concepts)

parse_implications(output) == ImplicationsIn(Split(output, "\n"), FALSE)

\* parse_answers(output): line.replace('Answer:', '').strip()
RECURSIVE AnswersIn(_)
AnswersIn(ls) ==
    IF ls = <<>> THEN <<>>
    ELSE (IF StartsWith(Head(ls), AnswerPrefix)
          THEN <<Strip(Join(SplitStr(Head(ls), AnswerPrefix), <<>>))>>
          ELSE <<>>)
         \o AnswersIn(Tail(ls))

parse_answers(output) == AnswersIn(Split(output, "\n"))

\* set(xs)
SetOf(xs) == {xs[i] : i \in 1..Len(xs)}

\* compare_executions and compare_implications: whether differences are
\* reported (their texts are only printed)
ExecutionsDiffer(c_execs, clojure_execs) == c_execs # clojure_execs
ImplicationsDiffer(c_impls, clojure_impls) == SetOf(c_impls) # SetOf(clojure_impls)

\* TestComparison(test_name); `ran` is history: which runs were made
NewComparison ==
    [c_executions |-> <<>>, clojure_executions |-> <<>>,
     c_implications |-> <<>>, clojure_implications |-> <<>>,
     c_answers |-> <<>>, clojure_answers |-> <<>>,
     differences |-> 0, ran |-> <<>>]

\* if "TIMEOUT" in output or "ERROR" in output
Failed(output) == Contains(output, TimeoutText) \/ Contains(output, ErrorText)

\* run_differential_test(test_file, c_binary, clojure_binary)
Compared(c_output, clojure_output) ==
    IF Failed(c_output)
    THEN [NewComparison EXCEPT !.differences = 1, !.ran = <<c_output>>]
    ELSE IF Failed(clojure_output)
    THEN [NewComparison EXCEPT !.differences = 1,
                               !.ran = <<c_output, clojure_output>>]
    ELSE [c_executions |-> parse_executions(c_output),
          clojure_executions |-> parse_executions(clojure_output),
          c_implications |-> parse_implications(c_output),
          clojure_implications |-> parse_implications(clojure_output),
          c_answers |-> parse_answers(c_output),
          clojure_answers |-> parse_answers(clojure_output),
          differences |->
              (IF ExecutionsDiffer(parse_executions(c_output),
                                   parse_executions(clojure_output))
               THEN 1 ELSE 0)
              + (IF ImplicationsDiffer(parse_implications(c_output),
                                       parse_implications(clojure_output))
                 THEN 1 ELSE 0),
          ran |-> <<c_output, clojure_output>>]

\* the run: the test files found, the comparisons made, the matches counted
\* and the exit code (-1 while it runs), kept in `result`
run == result

InitDiff ==
    /\ variant = "diff"
    /\ pc = "main"
    /\ exc = "none"
    /\ \E n \in 0..MaxTests :
         result = [files |-> n, results |-> <<>>, execution_matches |-> 0,
                   matches |-> 0, code |-> -1]
    /\ \E found \in BOOLEAN :
         life = [Standalone(Call("main", <<>>, 0)) EXCEPT !.exists = found]
    /\ NoAdapter

\* main, up to the loop: both binaries exist and there are test files, or
\* sys.exit(1)
DiffStart ==
    /\ pc = "main"
    /\ IF life.exists /\ run.files > 0
       THEN pc' = "tests" /\ UNCHANGED result
       ELSE pc' = "exited" /\ result' = [run EXCEPT !.code = 1]
    /\ UNCHANGED <<variant, exc, life>>
    /\ UNCHANGED adapterVars

\* for test_file in test_files: results.append(run_differential_test(...))
DiffTest ==
    /\ pc = "tests"
    /\ Len(run.results) < run.files
    /\ \E c_output \in RunOutcomes, clojure_output \in RunOutcomes :
         result' = [run EXCEPT
                      !.results = Append(@, Compared(c_output, clojure_output))]
    /\ UNCHANGED <<variant, pc, exc, life>>
    /\ UNCHANGED adapterVars

\* the summary loop: exec_match = result.c_executions == result.clojure_executions
RECURSIVE CountExecMatches(_)
CountExecMatches(rs) ==
    IF rs = <<>> THEN 0
    ELSE (IF Head(rs).c_executions = Head(rs).clojure_executions THEN 1 ELSE 0)
         + CountExecMatches(Tail(rs))

\* if result.matches(): matches += 1
RECURSIVE CountMatches(_)
CountMatches(rs) ==
    IF rs = <<>> THEN 0
    ELSE (IF Head(rs).differences = 0 THEN 1 ELSE 0) + CountMatches(Tail(rs))

\* sys.exit(0 if execution_matches == len(results) else 1)
DiffSummary ==
    /\ pc = "tests"
    /\ Len(run.results) = run.files
    /\ result' = [run EXCEPT
                    !.execution_matches = CountExecMatches(run.results),
                    !.matches = CountMatches(run.results),
                    !.code = IF CountExecMatches(run.results) = Len(run.results)
                             THEN 0 ELSE 1]
    /\ pc' = "exited"
    /\ UNCHANGED <<variant, exc, life>>
    /\ UNCHANGED adapterVars

NextDiff == DiffStart \/ DiffTest \/ DiffSummary

SpecDiff == InitDiff /\ [][NextDiff]_vars

\* both runs of a test were made and completed, with the same executed
\* operations in the same order
BothRanAndAgree(r) ==
    /\ Len(r.ran) = 2
    /\ r.ran[1] \in Completed
    /\ r.ran[2] \in Completed
    /\ parse_executions(r.ran[1]) = parse_executions(r.ran[2])

\* C37: the differential test run exits with code 0 only if, for every test
\* file, both implementations ran to completion and produced the same
\* sequence of executed operations; a test whose run timed out or errored on
\* either implementation is never counted as an execution match.
C37_ExitZeroOnlyIfAllAgree ==
    pc = "exited" =>
        /\ run.code = 0 =>
              /\ Len(run.results) = run.files
              /\ \A i \in 1..Len(run.results) : BothRanAndAgree(run.results[i])
        /\ run.execution_matches
              <= Cardinality({i \in 1..Len(run.results) :
                                 BothRanAndAgree(run.results[i])})

-----------------------------------------------------------------------------
(* NAR.py: spawnNAR, terminateNAR and Exit among the processes of the system
   (SpecKill) *)

\* the processes: the Python process that imports NAR.py, the engine it
\* spawns, another process of the caller's process group (the shell or a
\* neighbour in its pipeline) and a process of another group
Procs == {"caller", "engine", "sibling", "outsider"}

\* the process table, kept in `result`: each process's group and state
\* ("none", "running", "zombie": exited and not waited for, "reaped",
\* "killed": ended by SIGTERM), the SIGTERMs sent to it, and how often
\* "quit" was written to the engine
procs == result

InitKill ==
    /\ variant = "narpy"
    /\ pc = "import"
    /\ exc = "none"
    /\ result = [pgid |-> [p \in Procs |->
                              CASE p = "engine" -> 0
                                [] p = "outsider" -> 2
                                [] OTHER -> 1],
                 state |-> [p \in Procs |->
                              IF p = "engine" THEN "none" ELSE "running"],
                 term |-> [p \in Procs |-> 0],
                 quits |-> 0]
    /\ life = Standalone(Call("import", <<>>, 0))
    /\ NoAdapter

\* subprocess.Popen([...], stdin=PIPE, stdout=PIPE, stderr=PIPE, ...): no
\* start_new_session, no preexec_fn, so the child stays in the process group
\* of the process that spawns it
InheritedGroup(t) == t.pgid["caller"]

spawnNAR(t) ==
    [t EXCEPT !.pgid["engine"] = InheritedGroup(t),
              !.state["engine"] = "running"]

\* NARproc = spawnNAR(), when the module is imported
KillImport ==
    /\ pc = "import"
    /\ result' = spawnNAR(procs)
    /\ pc' = "idle"
    /\ UNCHANGED <<variant, exc, life>>
    /\ UNCHANGED adapterVars

\* os.killpg(pgid, signal.SIGTERM): every running process of the group gets
\* the signal
killpg(t, g) ==
    [t EXCEPT !.term = [p \in Procs |->
                          IF t.pgid[p] = g /\ t.state[p] = "running"
                          THEN t.term[p] + 1 ELSE t.term[p]]]

\* terminateNAR(usedNAR): os.killpg(os.getpgid(usedNAR.pid), SIGTERM); when
\* the pid is gone getpgid raises, and usedNAR.terminate() does nothing for a
\* process that was waited for
terminateNAR(t) ==
    IF t.state["engine"] \in {"running", "zombie"}
    THEN killpg(t, t.pgid["engine"])
    ELSE t

\* usedNAR.stdin.write("quit\n"); flush(): an exception is passed over
WriteQuit(t) ==
    IF t.state["engine"] = "running" THEN [t EXCEPT !.quits = t.quits + 1]
    ELSE t

\* Exit(): write "quit", finally terminateNAR(usedNAR)
KillExit ==
    /\ pc = "idle"
    /\ life.calls < MaxTerminates
    /\ result' = terminateNAR(WriteQuit(procs))
    /\ life' = [life EXCEPT !.call = Call("Exit", <<>>, 0), !.calls = @ + 1]
    /\ UNCHANGED <<variant, pc, exc>>
    /\ UNCHANGED adapterVars

\* NAR.terminateNAR()
KillTerminate ==
    /\ pc = "idle"
    /\ life.calls < MaxTerminates
    /\ result' = terminateNAR(procs)
    /\ life' = [life EXCEPT !.call = Call("terminateNAR", <<>>, 0),
                            !.calls = @ + 1]
    /\ UNCHANGED <<variant, pc, exc>>
    /\ UNCHANGED adapterVars

\* getNAR().wait(): the caller collects an engine that has exited
KillWait ==
    /\ pc = "idle"
    /\ procs.state["engine"] = "zombie"
    /\ result' = [procs EXCEPT !.state["engine"] = "reaped"]
    /\ life' = [life EXCEPT !.call = Call("wait", <<>>, 0)]
    /\ UNCHANGED <<variant, pc, exc>>
    /\ UNCHANGED adapterVars

\* the engine exits: on "quit", on SIGTERM or on its own
KillEngineExits ==
    /\ procs.state["engine"] = "running"
    /\ result' = [procs EXCEPT !.state["engine"] = "zombie"]
    /\ UNCHANGED <<variant, pc, exc, life>>
    /\ UNCHANGED adapterVars

\* SIGTERM reaches a process that does not handle it: the process ends, and
\* with the caller the program
KillDelivered ==
    /\ \E p \in Procs \ {"engine"} :
         /\ procs.state[p] = "running"
         /\ procs.term[p] > 0
         /\ result' = [procs EXCEPT !.state[p] = "killed"]
         /\ pc' = IF p = "caller" THEN "ended" ELSE pc
         /\ life' = IF p = "caller" THEN [life EXCEPT !.how = "SIGTERM"] ELSE life
    /\ UNCHANGED <<variant, exc>>
    /\ UNCHANGED adapterVars

NextKill ==
    \/ KillImport
    \/ KillExit
    \/ KillTerminate
    \/ KillWait
    \/ KillEngineExits
    \/ KillDelivered

SpecKill == InitKill /\ [][NextKill]_vars

\* C38: terminateNAR / Exit deliver the termination signal only to the
\* engine process spawned by spawnNAR; the calling process (and any other
\* process that is not the engine) is never a target of the signal.
C38_OnlyEngineSignalled ==
    \A p \in Procs \ {"engine"} : procs.term[p] = 0

-----------------------------------------------------------------------------
(* NAR.py: the tasks and the reason GetOutput records for text lines
   (SpecNarRole) *)

\* one call of AddInput, answered by up to three lines
NarRoleCmds == 1
NarRoleLines == 3

RawRevised == <<"R","e","v","i","s","e","d",":"," ","e",".","\n">>
RawDecide == <<"^","d","e","c","i","d","e",":"," ","<","a"," ","=","/",">"," ","b",">"," ","d","e","s","i","r","e","=","0",".","7","0","\n">>

\* a line of each role, with and without a colon in its payload, a task as
\* a JSON value, a decision and the cycle-completion message
RoleMenu ==
    {RawInput, RawDerived, RawRevised, RawAnswer, RawSelected, RawJsonTask,
     RawDecide, RawCycleDone}

InitNarRole == InitOf("narpy", [vocab |-> RoleMenu, lines |-> NarRoleLines,
                                cmds |-> NarRoleCmds, calls |-> {AddInputStmt}])

SpecNarRole == InitNarRole /\ [][NextNarPy]_vars

\* the role prefixes whose lines go to a collection
RolePrefixes(c) ==
    CASE c = "input" -> {InputPrefix}
      [] c = "derivations" -> {DerivedPrefix, RevisedPrefix}
      [] c = "answers" -> {AnswerPrefix}
      [] c = "selections" -> {SelectedPrefix}

RoleCollections == {"input", "derivations", "answers", "selections"}

HasRole(line, c) == \E pre \in RolePrefixes(c) : StartsWith(line, pre)

\* the payload of a role-prefixed line: all that follows the prefix, trimmed
Payload(line, c) ==
    LET pre == CHOOSE q \in RolePrefixes(c) : StartsWith(line, q) IN
    Strip(SubSeq(line, Len(pre) + 1, Len(line)))

\* the statement terminator of a payload: the first '.', '!' or '?' that
\* ends a token (0: none)
Terminators == {".", "!", "?"}
EndsToken(p, i) ==
    p[i] \in Terminators /\ (i = Len(p) \/ p[i + 1] \in Whitespace)
TerminatorAt(p) ==
    IF \E i \in 1..Len(p) : EndsToken(p, i)
    THEN CHOOSE i \in 1..Len(p) :
             EndsToken(p, i) /\ \A j \in 1..(i - 1) : ~EndsToken(p, j)
    ELSE 0

\* term and punctuation of a recorded task
Brief(task) == <<Get(task, "term", PyNone), Get(task, "punctuation", PyNone)>>
Briefs(tasks) == [i \in 1..Len(tasks) |-> Brief(tasks[i])]

\* the task a payload states: its term is the text before the terminator,
\* its punctuation the terminator
StatedTask(p) ==
    IF TerminatorAt(p) = 0 THEN PyNone
    ELSE PyDict(<<[key |-> "term",
                   value |-> PyStr(Strip(SubSeq(p, 1, TerminatorAt(p) - 1)))],
                  [key |-> "punctuation",
                   value |-> PyStr(<<p[TerminatorAt(p)]>>)]>>)

\* what the lines add to collection c, line by line: a line of the role the
\* task of its payload (the payload `whole` as the term of a belief, or the
\* task it states), any other line what the JSON block adds
RECURSIVE Recorded(_, _, _)
Recorded(ls, c, whole) ==
    IF ls = <<>> THEN <<>>
    ELSE (IF HasRole(Head(ls), c)
          THEN <<IF whole THEN PlainTask(Payload(Head(ls), c))
                 ELSE StatedTask(Payload(Head(ls), c))>>
          ELSE JsonPart(Head(ls))[c])
         \o Recorded(Tail(ls), c, whole)

\* C32: for every role-prefixed text line handled by GetOutput, the recorded
\* task's punctuation is taken from the statement terminator (belief for '.',
\* goal for '!', question for '?') and its term is the inner term text
\* without the terminator and without trailing metadata tokens.
C32_TermAndPunctuation ==
    OutputReturned =>
        \A c \in RoleCollections :
            Briefs(result[c]) = Briefs(Recorded(TextsOf(OutBatch), c, FALSE))

\* C33: for a 'Derived:' or 'Revised:' line, GetOutput records the whole
\* payload after the prefix (trimmed), exactly as it does for 'Input:',
\* 'Answer:' and 'Selected:' lines, including when the payload itself
\* contains a colon (':|:' or 'Truth:').
C33_WholePayload ==
    OutputReturned =>
        \A c \in RoleCollections :
            result[c] = Recorded(TextsOf(OutBatch), c, TRUE)

\* the batch holds a decision line
DecideLines(ls) == {i \in 1..Len(ls) : Contains(ls[i], DecideMarker)}

\* a parsed task with belief punctuation
BeliefTask(t) ==
    /\ t.type = "dict"
    /\ Has(t, "term")
    /\ Get(t, "punctuation", PyNone) = PyStr(<<".">>)

\* C34: when a batch contains a decision line, the reason returned by
\* parseReason holds the desire value and two parsed tasks, the learned
\* implication as hypothesis and its precondition, both with belief
\* punctuation; the precondition is never missing.
C34_ReasonComplete ==
    (OutputReturned /\ DecideLines(TextsOf(OutBatch)) # {})
    => /\ result.reason.type = "dict"
       /\ Get(result.reason, "desire", PyNone).type = "float"
       /\ BeliefTask(Get(result.reason, "hypothesis", PyNone))
       /\ BeliefTask(Get(result.reason, "precondition", PyNone))

-----------------------------------------------------------------------------
(* Role-prefixed and execution lines in the batch of a stats query
   (SpecStatsRole) *)

\* what the engine may write while a stats query is read: a statistic line,
\* an answer, an execution and the marker
StatsRoleMenu == {RawStat, RawAnswer, RawExecuted, RawDone}

InitStatsRole ==
    \E v \in {"working", "threaded"} :
        InitOf(v, [vocab |-> StatsRoleMenu, lines |-> StatsLines,
                   cmds |-> StatsCmds, calls |-> {Call("stats", <<>>, 0)}])

SpecStatsRole == InitStatsRole /\ [][Next]_vars

\* a line the classification rules place before the statistic lines: one
\* with a role prefix, or one that begins with the operator sigil
TaskOrExecution(t) ==
    \E pre \in {InputPrefix, DerivedPrefix, RevisedPrefix, AnswerPrefix,
                SelectedPrefix, Sigil} : StartsWith(t, pre)

\* C31: classification is first-match-wins in the stated order: a line with
\* a role prefix (Input:, Derived:, Revised:, Answer:, Selected:) or
\* beginning with the operator sigil '^' is never turned into a stats entry,
\* even when it contains a colon and is part of the batch of a stats query.
C31_RoleLineNoStatsEntry ==
    StatsReturned =>
        \A j \in 1..Len(StatsBatch) :
            TaskOrExecution(StatsBatch[j]) =>
                \A k \in 1..Len(result.snapshot) :
                    Replace(result.snapshot[k].key, " ", "_") # KeyOf(StatsBatch[j])

-----------------------------------------------------------------------------
(* NAR_native.py: reads of the engine's stdout behind select, without a
   reader thread (SpecNative) *)

\* commands the caller issues and raw lines the engine writes
NativeCmds == 2
NativeLines == 2

\* time.sleep(0.05) in spawnNAR, in ticks
NativeSleep == 2
\* select.select([proc.stdout], [], [], 0.01) in spawnNAR: less than a tick,
\* counted as one
SpawnSelect == 1
\* select.select([nar.stdout], [], [], 0.1) in GetRawOutput
SelectWait == 4

NativeMenu == {RawPlain, RawBlank, RawDone}

InitNative == InitOf("native", [vocab |-> NativeMenu, lines |-> NativeLines,
                                cmds |-> NativeCmds, calls |-> {AddInputStmt}])

\* NARproc = spawnNAR(): Popen, then time.sleep(0.05)
NativeImport ==
    /\ variant = "native"
    /\ pc = "import"
    /\ pc' = "spawnsleep"
    /\ waited' = 0
    /\ UNCHANGED <<life, variant, mode, timeout, elapsed, stdin, engCmd, alive,
                   pipe, reader, queue, heap, lines, batches, emitted, exc,
                   flag, result, flood, env, timely, lastArr>>

\* the sleep is over: the loop that consumes the welcome message begins
NativeSlept ==
    /\ pc = "spawnsleep"
    /\ waited = NativeSleep
    /\ pc' = "spawnselect"
    /\ waited' = 0
    /\ mode' = "startup"
    /\ UNCHANGED <<life, variant, timeout, elapsed, stdin, engCmd, alive,
                   pipe, reader, queue, heap, lines, batches, emitted, exc,
                   flag, result, flood, env, timely, lastArr>>

\* select reports stdout ready: it holds a line, or it is at end of stream
Ready == pipe # <<>> \/ ~alive

\* spawnNAR: line = proc.stdout.readline(); if not line: break
NativeWelcome ==
    /\ pc = "spawnselect"
    /\ Ready
    /\ IF pipe # <<>>
       THEN /\ pipe' = Tail(pipe)
            /\ waited' = 0
            /\ UNCHANGED <<pc, mode>>
       ELSE /\ pc' = "idle"
            /\ mode' = "none"
            /\ UNCHANGED <<pipe, waited>>
    /\ UNCHANGED <<life, variant, timeout, elapsed, stdin, engCmd, alive,
                   reader, queue, heap, lines, batches, emitted, exc, flag,
                   result, flood, env, timely, lastArr>>

\* spawnNAR: if not ready: break; return proc
NativeSpawned ==
    /\ pc = "spawnselect"
    /\ ~Ready
    /\ waited = SpawnSelect
    /\ pc' = "idle"
    /\ mode' = "none"
    /\ waited' = 0
    /\ UNCHANGED <<life, variant, timeout, elapsed, stdin, engCmd, alive,
                   pipe, reader, queue, heap, lines, batches, emitted, exc,
                   flag, result, flood, env, timely, lastArr>>

\* AddInput(narsese): write and flush, then GetRawOutput: lines = []
NativeAddInput ==
    /\ variant = "native"
    /\ pc = "idle"
    /\ Len(stdin) < env.cmds
    /\ \E call \in env.calls :
         /\ life' = [life EXCEPT !.call = call]
         /\ IF ~WriteFails(alive)
            THEN /\ stdin' = Append(stdin, CommandOf(call))
                 /\ lines' = NewList(heap)
                 /\ heap' = Append(heap, <<>>)
                 /\ mode' = "batch"
                 /\ pc' = "select"
                 /\ waited' = 0
                 /\ UNCHANGED exc
            ELSE /\ exc' = "BrokenPipeError"
                 /\ UNCHANGED <<stdin, lines, heap, mode, pc, waited>>
    /\ UNCHANGED <<variant, timeout, elapsed, engCmd, alive, pipe, reader,
                   queue, batches, emitted, flag, result, flood, env, timely,
                   lastArr>>

\* GetRawOutput returns lines; AddInput returns its dict
NativeReturn(why, endN) ==
    /\ batches' = Append(batches, [cmd |-> Len(stdin), ref |-> lines,
                                   mode |-> mode, by |-> why, end |-> endN,
                                   call |-> life.call])
    /\ result' = AddInputDict(variant, TextsOf(heap[lines]))
    /\ pc' = "idle"
    /\ mode' = "none"
    /\ lines' = 0
    /\ waited' = 0

\* line = nar.stdout.readline(): if not line: break; line = line.strip();
\* if line == "//*done": break; if line: lines.append(line)
NativeReadLine ==
    /\ pc = "select"
    /\ Ready
    /\ IF pipe = <<>>
       THEN NativeReturn("eof", 0) /\ UNCHANGED <<pipe, heap>>
       ELSE /\ pipe' = Tail(pipe)
            /\ IF IsTerminator(Strip(Head(pipe).text))
               THEN NativeReturn("terminator", Head(pipe).n) /\ UNCHANGED heap
               ELSE /\ heap' = IF Strip(Head(pipe).text) # <<>>
                               THEN [heap EXCEPT ![lines] =
                                        Append(@, [cmd |-> Head(pipe).cmd,
                                                   n |-> Head(pipe).n,
                                                   text |-> Strip(Head(pipe).text),
                                                   wr |-> Len(stdin)])]
                               ELSE heap
                    /\ waited' = 0
                    /\ UNCHANGED <<batches, result, pc, mode, lines>>
    /\ UNCHANGED <<life, variant, timeout, elapsed, stdin, engCmd, alive,
                   reader, queue, emitted, exc, flag, flood, env, timely,
                   lastArr>>

\* ready, _, _ = select.select([nar.stdout], [], [], 0.1); if not ready: break
SelectElapsed(w) == w = SelectWait

NativeSilent ==
    /\ pc = "select"
    /\ ~Ready
    /\ SelectElapsed(waited)
    /\ NativeReturn("idle", 0)
    /\ UNCHANGED <<life, variant, timeout, elapsed, stdin, engCmd, alive,
                   pipe, reader, queue, heap, emitted, exc, flag, flood, env,
                   timely, lastArr>>

\* time passes while the calling thread sleeps or waits in select
NativeTick ==
    /\ \/ pc = "spawnsleep" /\ waited < NativeSleep
       \/ pc = "spawnselect" /\ ~Ready /\ waited < SpawnSelect
       \/ pc = "select" /\ ~Ready /\ waited < SelectWait
    /\ waited' = waited + 1
    /\ UNCHANGED <<life, variant, pc, mode, timeout, elapsed, stdin, engCmd,
                   alive, pipe, reader, queue, heap, lines, batches, emitted,
                   exc, flag, result, flood, env, timely, lastArr>>

NativeClient ==
    \/ NativeImport
    \/ NativeSlept
    \/ NativeWelcome
    \/ NativeSpawned
    \/ NativeAddInput
    \/ NativeReadLine
    \/ NativeSilent

NextNative == Engine \/ NativeClient \/ NativeTick

SpecNative == InitNative /\ [][NextNative]_vars

\* the marker that answers command c: a line '//*done' the engine wrote for c
MarkerOf(n, c) ==
    n > 0 /\ emitted[n].cmd = c /\ IsTerminator(Strip(emitted[n].text))

\* the engine writes no second marker for a command
OneMarkerEach ==
    \A k, l \in 1..Len(emitted) :
        ( /\ k # l
          /\ IsTerminator(Strip(emitted[k].text))
          /\ IsTerminator(Strip(emitted[l].text)) )
        => emitted[k].cmd # emitted[l].cmd

\* C35: in NAR_native, GetRawOutput reads lines until the '//*done' marker:
\* an AddInput call does not return before the marker of its own command has
\* been read (or end of stream), so it never returns an empty or partial
\* batch merely because the engine was silent for 100 ms.
\* (stated for an engine whose banner holds ordinary lines and that writes
\* one marker for a command)
C35_ReadsUntilMarker ==
    (PlainBanner /\ OneMarkerEach) =>
        \A i \in 1..Len(batches) :
            batches[i].mode = "batch" =>
                \/ batches[i].by = "eof"
                \/ /\ batches[i].by = "terminator"
                   /\ MarkerOf(batches[i].end, batches[i].cmd)

-----------------------------------------------------------------------------
(* NAR_working.NAR.add_input and NAR_native_threaded.AddInput on the same
   queued lines (SpecEquiv) *)

\* one command, answered by up to two lines
EquivCmds == 1
EquivLines == 2

RawAnswerTight == <<"A","n","s","w","e","r",":","c",".","\n">>
RawDerivedWide == <<"D","e","r","i","v","e","d",":"," "," "," ","b",".","\n">>

\* an execution, a blank line, the marker, and task lines with one, zero and
\* several spaces after the prefix
EquivMenu ==
    {RawPlain, RawBlank, RawDone, RawAnswer, RawAnswerTight, RawDerivedWide}

InitEquiv == InitOf("working", [vocab |-> EquivMenu, lines |-> EquivLines,
                                cmds |-> EquivCmds, calls |-> {AddInputStmt}])

SpecEquiv == InitEquiv /\ [][Next]_vars

\* the list GetRawOutput of NAR_native_threaded builds from the same items
RECURSIVE ThreadedLines(_, _)
ThreadedLines(items, ls) ==
    IF items = <<>> THEN ls
    ELSE ThreadedLines(Tail(items), Collect("threaded", ls, Head(items)))

\* add_input has returned the items of a read that GetRawOutput would end
\* at the same item: at the marker, or at an empty queue with a line
\* collected (its deadline is the later one)
SameRead ==
    /\ pc = "idle"
    /\ exc = "none"
    /\ batches # <<>>
    /\ Last(batches).mode = "batch"
    /\ Last(batches).call.op = "add_input"
    /\ \/ Last(batches).by = "terminator"
       \/ /\ Last(batches).by = "idle"
          /\ ThreadedLines(Batch(Last(batches)), <<>>) # <<>>

\* C36: NAR_working.NAR.add_input and NAR_native_threaded.AddInput are
\* observationally equivalent: for the same sequence of queued lines with the
\* same arrival timing they return the same output lines, executions,
\* derivations and answers (including for blank lines, for the '//*done'
\* marker, and for 'Derived:'/'Answer:' lines with zero or several spaces
\* after the prefix).
C36_SameAsThreaded ==
    SameRead =>
        result = AddInputDict("threaded",
                              TextsOf(ThreadedLines(Batch(Last(batches)), <<>>)))

=============================================================================
